---- MODULE Spec2Model ----
(***************************************************************************)
(* Verification model of starlight-openapi-navigator: the slug factory,    *)
(* the OpenAPI normalizer (parser), the customization layer and the        *)
(* runtime artifact builder (chunking engine).                             *)
(*                                                                         *)
(* JavaScript strings are modelled as sequences of one-character strings,  *)
(* so that lower-casing, trimming and the slug regular expressions are     *)
(* computed character by character as the code computes them.              *)
(***************************************************************************)
EXTENDS Integers, Sequences, FiniteSets, TLC

VARIABLES
  mode,        \* which part of the program this behaviour exercises
  seen,        \* createSlugFactory: the closure's `seen` Map (base -> count)
  issued,      \* createSlugFactory: slugs returned so far, in call order
  pc,          \* pipeline position
  document,    \* the raw parsed document held by the normalized spec
  tagSeen,     \* loadAndNormalizeSpec: tagSlugFactory's `seen` Map
  opSeen,      \* loadAndNormalizeSpec: operationSlugFactory's `seen` Map
  tagsByName,  \* loadAndNormalizeSpec: Map name -> tag, in insertion order
  heap,        \* the operation objects, shared by reference (index = identity)
  spec,        \* the normalized spec returned by loadAndNormalizeSpec
  entryOptions,\* the options object the site's configuration passes in
  options,     \* the resolved options handed to customizeSpec
  custom,      \* the spec returned by customizeSpec
  artifacts,   \* the value returned by createRuntimeSpecArtifacts
  input,       \* input of the pure function under check
  output       \* its result

vars == <<mode, seen, issued, pc, document, tagSeen, opSeen, tagsByName, heap,
          spec, entryOptions, options, custom, artifacts, input, output>>

\* An absent (undefined) string, an absent (null) array of strings, and an
\* absent object
Null == <<"null">>
NullList == <<Null>>
NoObject == [absent |-> TRUE]
\* A value that is not a plain object (a string, a number, an array, null)
NotAnObject == [notAnObject |-> TRUE]
EmptyMap == <<>>
\* Number.POSITIVE_INFINITY, above every index of the model
Infinity == 1000000

isPlainObject(value) == "notAnObject" \notin DOMAIN value /\ "absent" \notin DOMAIN value

-----------------------------------------------------------------------------
(* Strings                                                                 *)

UpperChars == <<"A","B","C","D","E","F","G","H","I","J","K","L","M",
                "N","O","P","Q","R","S","T","U","V","W","X","Y","Z">>
LowerChars == <<"a","b","c","d","e","f","g","h","i","j","k","l","m",
                "n","o","p","q","r","s","t","u","v","w","x","y","z">>
DigitChars == <<"0","1","2","3","4","5","6","7","8","9">>

Range(s) == {s[i] : i \in DOMAIN s}

ToLowerChar(c) ==
  IF c \in Range(UpperChars)
    THEN LowerChars[CHOOSE i \in DOMAIN UpperChars : UpperChars[i] = c]
    ELSE c

ToLowerCase(s) == [i \in DOMAIN s |-> ToLowerChar(s[i])]

IsSlugChar(c) == c \in Range(LowerChars) \cup Range(DigitChars)

IsSpace(c) == c = " "

RECURSIVE TrimStart(_)
TrimStart(s) ==
  IF s # <<>> /\ IsSpace(Head(s)) THEN TrimStart(Tail(s)) ELSE s

RECURSIVE TrimEnd(_)
TrimEnd(s) ==
  IF s # <<>> /\ IsSpace(s[Len(s)]) THEN TrimEnd(SubSeq(s, 1, Len(s) - 1)) ELSE s

Trim(s) == TrimEnd(TrimStart(s))

RECURSIVE IntToStr(_)
IntToStr(n) ==
  IF n < 10 THEN <<DigitChars[n + 1]>>
  ELSE IntToStr(n \div 10) \o <<DigitChars[(n % 10) + 1]>>

StartsWith(s, prefix) ==
  Len(prefix) <= Len(s) /\ SubSeq(s, 1, Len(prefix)) = prefix

-----------------------------------------------------------------------------
(* Slug factory: src/unnamed/part_005 lines 503-521                        *)

RECURSIVE SkipNonSlugChars(_)
SkipNonSlugChars(s) ==
  IF s # <<>> /\ ~IsSlugChar(Head(s)) THEN SkipNonSlugChars(Tail(s)) ELSE s

\* .replace(/[^a-z0-9]+/g, '-')
RECURSIVE ReplaceNonSlugRuns(_)
ReplaceNonSlugRuns(s) ==
  IF s = <<>> THEN <<>>
  ELSE IF IsSlugChar(Head(s)) THEN <<Head(s)>> \o ReplaceNonSlugRuns(Tail(s))
  ELSE <<"-">> \o ReplaceNonSlugRuns(SkipNonSlugChars(Tail(s)))

RECURSIVE StripLeading(_, _)
StripLeading(s, c) ==
  IF s # <<>> /\ Head(s) = c THEN StripLeading(Tail(s), c) ELSE s

RECURSIVE StripTrailing(_, _)
StripTrailing(s, c) ==
  IF s # <<>> /\ s[Len(s)] = c THEN StripTrailing(SubSeq(s, 1, Len(s) - 1), c) ELSE s

\* .replace(/^-+|-+$/g, '')
StripHyphens(s) == StripTrailing(StripLeading(s, "-"), "-")

\* toSlug(value, fallback); `value` is always a string at the three call
\* sites of the stateful factories (tag name, operationId, schema name).
toSlug(value, fallback) ==
  LET base == IF Len(Trim(value)) > 0 THEN Trim(value) ELSE fallback
      slug == StripHyphens(ReplaceNonSlugRuns(ToLowerCase(base)))
  IN  IF slug # <<>> THEN slug ELSE fallback

MapGet(map, key, default) == IF key \in DOMAIN map THEN map[key] ELSE default

MapSet(map, key, value) ==
  [k \in (DOMAIN map) \cup {key} |-> IF k = key THEN value ELSE map[k]]

\* The closure returned by createSlugFactory(defaultSlug), applied to
\* (value, fallback) in the state `seenMap`: the base slug it computes.
SlugBase(value, fallback, defaultSlug) ==
  toSlug(value, IF fallback # <<>> THEN fallback ELSE defaultSlug)

\* ... the slug it returns
FactorySlug(seenMap, value, fallback, defaultSlug) ==
  LET base  == SlugBase(value, fallback, defaultSlug)
      count == MapGet(seenMap, base, 0)
  IN  IF count = 0 THEN base ELSE base \o <<"-">> \o IntToStr(count + 1)

\* ... and the `seen` Map it leaves behind
FactorySeen(seenMap, value, fallback, defaultSlug) ==
  LET base == SlugBase(value, fallback, defaultSlug)
  IN  MapSet(seenMap, base, MapGet(seenMap, base, 0) + 1)


-----------------------------------------------------------------------------
(* Names used by the documents and options of the model                    *)

\* DEFAULT_UNTAGGED_NAME
Untagged == <<"U","n","t","a","g","g","e","d">>
UntaggedSlug == <<"u","n","t","a","g","g","e","d">>
TagDefaultSlug == <<"t","a","g">>
OperationDefaultSlug == <<"o","p","e","r","a","t","i","o","n">>
SchemaDefaultSlug == <<"s","c","h","e","m","a">>
SampleDefaultSlug == <<"s","a","m","p","l","e">>
DefaultItemSlug == <<"i","t","e","m">>

NamePayments == <<"p","a","y","m","e","n","t","s">>
NamePaymentsCap == <<"P","a","y","m","e","n","t","s">>
NamePayments2 == <<"p","a","y","m","e","n","t","s","-","2">>
NamePaymentsLoud == <<"P","A","Y","M","E","N","T","S"," ">>
NameCore == <<"C","o","r","e">>
NameCoreLower == <<"c","o","r","e">>
NameBlank == <<" ">>

IdList == <<"l","i","s","t">>
IdList2 == <<"l","i","s","t","-","2">>
IdListPadded == <<" ","L","i","s","t"," ">>

PathUsers == <<"/","u","s","e","r","s">>
PathUserById == <<"/","u","s","e","r","s","/","{","i","d","}">>
PathOrders == <<"/","o","r","d","e","r","s">>

LangCurl == <<"c","u","r","l">>
LangPython == <<"P","y","t","h","o","n">>
LangPythonLower == <<"p","y","t","h","o","n">>
LangPy == <<"P","y">>
LabelBasic == <<"B","a","s","i","c">>
SourceText == <<"x">>

SchemaPet == <<"P","e","t">>
SchemaPetLower == <<"p","e","t">>
SchemaPet2 == <<"P","e","t","_","2">>

\* HTTP_METHODS (the members the documents of the model use, in key order)
MethodGet == <<"g","e","t">>
MethodPost == <<"p","o","s","t">>
MethodPut == <<"p","u","t">>
MethodDelete == <<"d","e","l","e","t","e">>
HttpMethods == <<MethodGet, MethodPost, MethodPut, MethodDelete>>
DocPaths == <<PathUsers, PathUserById, PathOrders>>

\* The path key and method of the k-th operation entry of a document: the
\* entries of `paths` are walked in key order, each (path, method) pair once.
PathKeyOf(k) == DocPaths[((k - 1) % Len(DocPaths)) + 1]
MethodOf(k) == HttpMethods[(((k - 1) \div Len(DocPaths)) % Len(HttpMethods)) + 1]

-----------------------------------------------------------------------------
(* Generic sequence helpers                                                *)

RECURSIVE SelectIdx(_, _, _)
\* indices i of lo..hi (ascending) with keep[i], by halving the range
SelectIdx(keep, lo, hi) ==
  IF lo > hi THEN <<>>
  ELSE IF lo = hi THEN (IF keep[lo] THEN <<lo>> ELSE <<>>)
  ELSE SelectIdx(keep, lo, (lo + hi) \div 2) \o SelectIdx(keep, (lo + hi) \div 2 + 1, hi)

\* Array.prototype.filter, by a precomputed Boolean per index
FilterByFlags(s, keep) ==
  LET idx == SelectIdx(keep, 1, Len(s)) IN [k \in 1..Len(idx) |-> s[idx[k]]]

RECURSIVE Flatten(_)
Flatten(ss) == IF ss = <<>> THEN <<>> ELSE Head(ss) \o Flatten(Tail(ss))

\* Array.prototype.sort with comparator cmp (negative: a first); the sort is
\* stable, so equal elements keep their order.
SortWith(s, cmp(_, _)) ==
  LET before(j, i) == cmp(s[j], s[i]) < 0 \/ (cmp(s[j], s[i]) = 0 /\ j < i)
      rank(i) == 1 + Cardinality({j \in DOMAIN s : j # i /\ before(j, i)})
  IN  [k \in 1..Len(s) |-> s[CHOOSE i \in DOMAIN s : rank(i) = k]]

-----------------------------------------------------------------------------
(* String.prototype.localeCompare (root collation): punctuation sorts      *)
(* before digits, digits before letters; letters compare case-insensitively*)
(* first, and a lower-case letter sorts before its upper-case form on a tie *)

PunctuationOrder == <<" ", "_", "-", "!", "{", "}", "/", ":">>

IndexIn(seq, c) == CHOOSE i \in DOMAIN seq : seq[i] = c

PrimaryWeight(c) ==
  LET l == ToLowerChar(c)
  IN  IF l \in Range(LowerChars) THEN 200 + IndexIn(LowerChars, l)
      ELSE IF l \in Range(DigitChars) THEN 100 + IndexIn(DigitChars, l)
      ELSE IF l \in Range(PunctuationOrder) THEN IndexIn(PunctuationOrder, l)
      ELSE 99

CaseWeight(c) == IF c \in Range(UpperChars) THEN 1 ELSE 0

RECURSIVE LexCompare(_, _)
LexCompare(a, b) ==
  IF a = <<>> /\ b = <<>> THEN 0
  ELSE IF a = <<>> THEN -1
  ELSE IF b = <<>> THEN 1
  ELSE IF Head(a) < Head(b) THEN -1
  ELSE IF Head(a) > Head(b) THEN 1
  ELSE LexCompare(Tail(a), Tail(b))

localeCompare(a, b) ==
  LET primary == LexCompare([i \in DOMAIN a |-> PrimaryWeight(a[i])],
                            [i \in DOMAIN b |-> PrimaryWeight(b[i])])
  IN  IF primary # 0 THEN primary
      ELSE LexCompare([i \in DOMAIN a |-> CaseWeight(a[i])],
                      [i \in DOMAIN b |-> CaseWeight(b[i])])

-----------------------------------------------------------------------------
(* Parameters: src/unnamed/part_005 lines 414-489                          *)
(* A parameter object is a record whose domain is the set of keys the      *)
(* object has: "name", "in", "required", "ref" (for $ref), "schema" and     *)
(* "examples" (both plain objects when present).                           *)

ParamRefPrefix == <<"#","/","c","o","m","p","o","n","e","n","t","s","/",
                    "p","a","r","a","m","e","t","e","r","s","/">>

\* .replace(/~1/g, '/') and .replace(/~0/g, '~')
RECURSIVE ReplacePair(_, _, _, _)
ReplacePair(s, c1, c2, by) ==
  IF Len(s) < 2 THEN s
  ELSE IF s[1] = c1 /\ s[2] = c2
    THEN <<by>> \o ReplacePair(SubSeq(s, 3, Len(s)), c1, c2, by)
    ELSE <<s[1]>> \o ReplacePair(Tail(s), c1, c2, by)

\* first index at which `needle` occurs in s, 0 when it does not
FirstIndexOf(s, needle) ==
  LET hits == {i \in 1..(Len(s) - Len(needle) + 1) :
                 SubSeq(s, i, i + Len(needle) - 1) = needle}
  IN  IF hits = {} THEN 0 ELSE CHOOSE i \in hits : \A j \in hits : i <= j

\* pointer.match(/#\/components\/parameters\/(.+)$/), then the unescaping
decodeRefName(pointer) ==
  LET at   == FirstIndexOf(pointer, ParamRefPrefix)
      rest == SubSeq(pointer, at + Len(ParamRefPrefix), Len(pointer))
  IN  IF at = 0 \/ rest = <<>> THEN Null
      ELSE ReplacePair(ReplacePair(rest, "~", "1", "/"), "~", "0", "~")

\* { ...base, ...override }
MergeMaps(base, override) ==
  [k \in (DOMAIN base) \cup (DOMAIN override) |->
     IF k \in DOMAIN override THEN override[k] ELSE base[k]]

WithoutKey(object, key) == [k \in (DOMAIN object) \ {key} |-> object[k]]

SubObject(object, key) == IF key \in DOMAIN object THEN object[key] ELSE EmptyMap

MergeSubObject(merged, base, override, key) ==
  IF key \in DOMAIN base \/ key \in DOMAIN override
    THEN MergeMaps(merged,
                   [k \in {key} |-> MergeMaps(SubObject(base, key), SubObject(override, key))])
    ELSE merged

mergeParameterObjects(base, override) ==
  MergeSubObject(MergeSubObject(MergeMaps(base, override), base, override, "schema"),
                 base, override, "examples")

HasText(object, key) == key \in DOMAIN object /\ object[key] # <<>>

\* resolveParameter; NoObject stands for `undefined` (the parameter is dropped)
resolveParameter(parameterDefinitions, parameter) ==
  IF ~isPlainObject(parameter) THEN NoObject
  ELSE
    LET hasRef  == "ref" \in DOMAIN parameter
        refName == IF hasRef THEN decodeRefName(parameter.ref) ELSE Null
        missing == hasRef /\ refName \notin DOMAIN parameterDefinitions
        working == IF hasRef /\ ~missing
                     THEN WithoutKey(mergeParameterObjects(parameterDefinitions[refName],
                                                           parameter), "ref")
                     ELSE parameter
    IN  IF missing THEN NoObject
        ELSE IF ~HasText(working, "name") THEN NoObject
        ELSE IF ~HasText(working, "in") THEN NoObject
        ELSE working

ParamKey(resolved) == resolved.name \o <<":">> \o resolved.in

KeyIndex(result, key) ==
  LET hits == {i \in DOMAIN result : ParamKey(result[i]) = key}
  IN  IF hits = {} THEN 0 ELSE CHOOSE i \in hits : TRUE

\* mutant: a parameter whose key is already present is ignored
PushParamFirstWins(parameterDefinitions, result, param) ==
  LET resolved == resolveParameter(parameterDefinitions, param)
  IN  IF ~isPlainObject(resolved) THEN result
      ELSE IF KeyIndex(result, ParamKey(resolved)) # 0 THEN result
      ELSE Append(result, resolved)

\* the `push` closure of mergeParameters
PushParam(parameterDefinitions, result, param) ==
  LET resolved == resolveParameter(parameterDefinitions, param)
  IN  IF ~isPlainObject(resolved) THEN result
      ELSE LET at == KeyIndex(result, ParamKey(resolved))
           IN  IF at # 0 THEN [result EXCEPT ![at] = resolved]
               ELSE Append(result, resolved)

RECURSIVE PushAll(_, _, _)
PushAll(parameterDefinitions, result, params) ==
  IF params = <<>> THEN result
  ELSE PushAll(parameterDefinitions,
               PushParam(parameterDefinitions, result, Head(params)),
               Tail(params))

mergeParameters(parameterDefinitions, pathParams, operationParams) ==
  PushAll(parameterDefinitions,
          PushAll(parameterDefinitions, <<>>, pathParams),
          operationParams)

\* buildParameterDefinitionMap: only plain objects are kept
buildParameterDefinitionMap(rawParameters) ==
  LET keep == {k \in DOMAIN rawParameters : isPlainObject(rawParameters[k])}
  IN  [k \in keep |-> rawParameters[k]]

-----------------------------------------------------------------------------
(* Code samples: src/unnamed/part_005 lines 549-632                        *)

\* LANGUAGE_SYNTAX_MAP
LANGUAGE_SYNTAX_MAP ==
  ( <<"c","u","r","l">> :> <<"b","a","s","h">> ) @@
  ( <<"c","#">> :> <<"c","s","h","a","r","p">> ) @@
  ( <<"c","s","h","a","r","p">> :> <<"c","s","h","a","r","p">> ) @@
  ( <<"d","o","t","n","e","t">> :> <<"c","s","h","a","r","p">> ) @@
  ( <<"j","a","v","a","s","c","r","i","p","t">> :> <<"j","a","v","a","s","c","r","i","p","t">> ) @@
  ( <<"n","o","d","e",".","j","s">> :> <<"j","a","v","a","s","c","r","i","p","t">> ) @@
  ( <<"n","o","d","e">> :> <<"j","a","v","a","s","c","r","i","p","t">> ) @@
  ( <<"p","y","t","h","o","n">> :> <<"p","y","t","h","o","n">> ) @@
  ( <<"g","o">> :> <<"g","o">> ) @@
  ( <<"g","o","l","a","n","g">> :> <<"g","o">> ) @@
  ( <<"j","a","v","a">> :> <<"j","a","v","a">> ) @@
  ( <<"s","h","e","l","l">> :> <<"b","a","s","h">> ) @@
  ( <<"j","s","o","n">> :> <<"j","s","o","n">> ) @@
  ( <<"y","a","m","l">> :> <<"y","a","m","l">> ) @@
  ( <<"y","m","l">> :> <<"y","a","m","l">> ) @@
  ( <<"x","m","l">> :> <<"x","m","l">> ) @@
  ( <<"h","t","m","l">> :> <<"h","t","m","l">> ) @@
  ( <<"t","e","x","t">> :> <<"t","e","x","t">> )

Plaintext == <<"p","l","a","i","n","t","e","x","t">>
ExampleWord == <<"E","x","a","m","p","l","e">>

deriveSyntax(language) ==
  LET key == ToLowerCase(language)
  IN  IF key \in DOMAIN LANGUAGE_SYNTAX_MAP THEN LANGUAGE_SYNTAX_MAP[key]
      ELSE LET slug == toSlug(key, DefaultItemSlug)
           IN  IF slug # <<>> THEN slug ELSE Plaintext

\* dedupeSamples: the first sample of each (lower-cased language, label)
dedupeSamples(samples) ==
  LET sameKey(i, j) == /\ ToLowerCase(samples[i].language) = ToLowerCase(samples[j].language)
                       /\ samples[i].label = samples[j].label
      keep == [i \in DOMAIN samples |-> ~\E j \in 1..(i - 1) : sameKey(i, j)]
  IN  FilterByFlags(samples, keep)

\* the body of rawSamples.forEach((entry, index) => ...): `acc` holds the
\* groups (Map label -> group, in insertion order) and the sample factory
CodeSampleStep(acc, entry, index) ==
  IF ~isPlainObject(entry) THEN acc
  ELSE
    LET label    == IF HasText(entry, "label") /\ Trim(entry.label) # <<>>
                      THEN Trim(entry.label)
                      ELSE ExampleWord \o <<" ">> \o IntToStr(index + 1)
        language == IF HasText(entry, "lang") /\ Trim(entry.lang) # <<>>
                      THEN Trim(entry.lang)
                      ELSE ExampleWord
        source   == IF "source" \in DOMAIN entry THEN entry.source ELSE <<>>
        name     == language \o <<"-">> \o label
        sample   == [ slug     |-> FactorySlug(acc.seen, name, language, SampleDefaultSlug),
                      label    |-> label,
                      language |-> language,
                      syntax   |-> deriveSyntax(language),
                      source   |-> source ]
        at       == {g \in DOMAIN acc.groups : acc.groups[g].label = label}
    IN  IF source = <<>> THEN acc
        ELSE [ seen   |-> FactorySeen(acc.seen, name, language, SampleDefaultSlug),
               groups |-> IF at = {}
                            THEN Append(acc.groups, [label |-> label, samples |-> <<sample>>])
                            ELSE [g \in DOMAIN acc.groups |->
                                    IF g \in at
                                      THEN [acc.groups[g] EXCEPT
                                              !.samples = Append(@, sample)]
                                      ELSE acc.groups[g]] ]

RECURSIVE CodeSampleFold(_, _, _)
CodeSampleFold(acc, rawSamples, index) ==
  IF index >= Len(rawSamples) THEN acc
  ELSE CodeSampleFold(CodeSampleStep(acc, rawSamples[index + 1], index),
                      rawSamples, index + 1)

\* normalizeCodeSamples(operation['x-codeSamples'])
normalizeCodeSamples(operation) ==
  IF "codeSamples" \notin DOMAIN operation THEN <<>>
  ELSE LET acc == CodeSampleFold([seen |-> EmptyMap, groups |-> <<>>],
                                 operation.codeSamples, 0)
       IN  [g \in DOMAIN acc.groups |->
              [acc.groups[g] EXCEPT !.samples = dedupeSamples(@)]]

-----------------------------------------------------------------------------
(* Operation/tag normalizer: src/unnamed/part_005 lines 138-364, 401-412   *)

IsWordChar(c) ==
  c \in Range(LowerChars) \cup Range(UpperChars) \cup Range(DigitChars) \cup {"_"}

RemoveChars(s, chars) == FilterByFlags(s, [i \in DOMAIN s |-> s[i] \notin chars])

ReplaceChar(s, from, to) == [i \in DOMAIN s |-> IF s[i] = from THEN to ELSE s[i]]

RECURSIVE SkipNonWordChars(_)
SkipNonWordChars(s) ==
  IF s # <<>> /\ ~IsWordChar(Head(s)) THEN SkipNonWordChars(Tail(s)) ELSE s

\* .replace(/[^A-Za-z0-9_]+/g, '_')
RECURSIVE ReplaceNonWordRuns(_)
ReplaceNonWordRuns(s) ==
  IF s = <<>> THEN <<>>
  ELSE IF IsWordChar(Head(s)) THEN <<Head(s)>> \o ReplaceNonWordRuns(Tail(s))
  ELSE <<"_">> \o ReplaceNonWordRuns(SkipNonWordChars(Tail(s)))

\* .replace(/_{2,}/g, '_')
RECURSIVE CollapseUnderscores(_)
CollapseUnderscores(s) ==
  IF Len(s) < 2 THEN s
  ELSE IF s[1] = "_" /\ s[2] = "_" THEN CollapseUnderscores(Tail(s))
  ELSE <<s[1]>> \o CollapseUnderscores(Tail(s))

\* mutant: an operation without operationId always gets the random suffix
extractOperationIdRandom(operation, method, pathKey, random) ==
  IF HasText(operation, "operationId") /\ Trim(operation.operationId) # <<>>
    THEN Trim(operation.operationId)
    ELSE method \o <<"_">> \o random

\* extractOperationId; `random` is Math.random().toString(36).slice(2, 8)
extractOperationId(operation, method, pathKey, random) ==
  IF HasText(operation, "operationId") /\ Trim(operation.operationId) # <<>>
    THEN Trim(operation.operationId)
    ELSE LET joined   == method \o <<"_">> \o pathKey
             replaced == CollapseUnderscores(ReplaceNonWordRuns(
                           ReplaceChar(RemoveChars(joined, {"{", "}"}), "/", "_")))
             fallback == StripTrailing(StripLeading(replaced, "_"), "_")
         IN  IF fallback # <<>> THEN fallback ELSE method \o <<"_">> \o random

\* the tag name registerTag files a declared or referenced name under
RegisteredTagName(name) == IF Trim(name) # <<>> THEN Trim(name) ELSE Untagged

TagIndexByName(tags, tagName) ==
  LET hits == {i \in DOMAIN tags : tags[i].name = tagName}
  IN  IF hits = {} THEN 0 ELSE CHOOSE i \in hits : TRUE

\* registerTag(name, meta): `reg` holds tagsByName (insertion order) and the
\* tag slug factory's Map. externalDocs and extensions of a tag are carried
\* along by the code and read by none of the modelled steps.
registerTag(reg, name, meta) ==
  LET tagName == RegisteredTagName(name)
      fallback == IF tagName = Untagged THEN UntaggedSlug ELSE tagName
      at == TagIndexByName(reg.tags, tagName)
      description == IF "description" \in DOMAIN meta THEN meta.description ELSE Null
  IN  IF at # 0
        THEN [reg EXCEPT !.tags[at].description =
                IF (@ = Null \/ @ = <<>>) /\ description # Null THEN description ELSE @]
      ELSE [ seen |-> FactorySeen(reg.seen, tagName, fallback, TagDefaultSlug),
             tags |-> Append(reg.tags,
                       [ name        |-> tagName,
                         slug        |-> FactorySlug(reg.seen, tagName, fallback, TagDefaultSlug),
                         description |-> description,
                         isFallback  |-> (tagName = Untagged),
                         operations  |-> <<>>,
                         stats       |-> [operations |-> 0, deprecated |-> 0,
                                          methods |-> EmptyMap],
                         metadata    |-> NoObject ]) ]

\* operationTags.map((tagName) => registerTag(tagName))
RECURSIVE RegisterAll(_, _)
RegisterAll(reg, names) ==
  IF names = <<>> THEN reg
  ELSE RegisterAll(registerTag(reg, Head(names), EmptyMap), Tail(names))

\* lines 251-257: document.tags entries that are plain objects with a
\* string name are registered with themselves as meta
RECURSIVE RegisterDeclared(_, _)
RegisterDeclared(reg, docTags) ==
  IF docTags = <<>> THEN reg
  ELSE LET tag == Head(docTags)
       IN  RegisterDeclared(IF isPlainObject(tag) /\ "name" \in DOMAIN tag
                              THEN registerTag(reg, tag.name, tag) ELSE reg,
                            Tail(docTags))

\* mutant: an operation without tags is filed under no tag at all
OperationTagNamesNoFallback(operation) ==
  IF "tags" \in DOMAIN operation THEN operation.tags ELSE <<>>

\* operation.tags when it is a non-empty array, else [DEFAULT_UNTAGGED_NAME]
OperationTagNames(operation) ==
  IF "tags" \in DOMAIN operation /\ operation.tags # <<>>
    THEN operation.tags
    ELSE <<Untagged>>

TagRefOf(tag) == [name |-> tag.name, slug |-> tag.slug, isFallback |-> tag.isFallback]

\* per-tag statistics (lines 330-342)

TagStats(operations) ==
  LET methodsUsed == {operations[i].method : i \in DOMAIN operations}
  IN  [ operations |-> Len(operations),
        deprecated |-> Cardinality({i \in DOMAIN operations : operations[i].deprecated}),
        methods    |-> [m \in methodsUsed |->
                          Cardinality({i \in DOMAIN operations : operations[i].method = m})] ]

\* tagOrder.get(name): the index of the last declared tag with this (raw) name
DeclaredOrder(docTags, name) ==
  LET hits == {i \in DOMAIN docTags :
                 isPlainObject(docTags[i]) /\ "name" \in DOMAIN docTags[i]
                 /\ docTags[i].name = name}
  IN  IF hits = {} THEN Infinity ELSE (CHOOSE i \in hits : \A j \in hits : j <= i) - 1

\* the comparator of orderedTags (lines 321-328)
CompareNormalizedTags(docTags, a, b) ==
  LET orderA == DeclaredOrder(docTags, a.name)
      orderB == DeclaredOrder(docTags, b.name)
  IN  IF orderA # orderB THEN orderA - orderB
      ELSE IF a.isFallback /\ ~b.isFallback THEN 1
      ELSE IF ~a.isFallback /\ b.isFallback THEN -1
      ELSE localeCompare(a.name, b.name)

\* normalizeSchemas(document.components?.schemas)
RECURSIVE SchemaFold(_, _, _)
SchemaFold(acc, seenMap, names) ==
  IF names = <<>> THEN acc
  ELSE LET name == Head(names)
       IN  SchemaFold(Append(acc, [ name   |-> name,
                                    slug   |-> FactorySlug(seenMap, name, name, SchemaDefaultSlug),
                                    schema |-> [title |-> name] ]),
                      FactorySeen(seenMap, name, name, SchemaDefaultSlug),
                      Tail(names))

normalizeSchemas(rawSchemaNames) == SchemaFold(<<>>, EmptyMap, rawSchemaNames)

-----------------------------------------------------------------------------
(* Customization layer: src/unnamed/part_006 lines 207-258, 936-1071,      *)
(* 1225-1328                                                               *)

normalizeTagKey(value) == ToLowerCase(Trim(value))

\* createNormalizedSet(values); the code's `null` is the empty set here
\* (it returns null exactly when the set would be empty)
createNormalizedSet(values) ==
  IF values = NullList THEN {}
  ELSE {normalizeTagKey(values[i]) : i \in DOMAIN values} \ {<<>>}

\* mutant: a tag the include list names survives whatever the exclude list says
allowTagIncludeWins(tag, includeSet, excludeSet) ==
  LET nameKey == normalizeTagKey(tag.name)
      slugKey == normalizeTagKey(tag.slug)
  IN  IF includeSet # {} THEN nameKey \in includeSet \/ slugKey \in includeSet
      ELSE ~(nameKey \in excludeSet \/ slugKey \in excludeSet)

allowTag(tag, includeSet, excludeSet) ==
  LET nameKey == normalizeTagKey(tag.name)
      slugKey == normalizeTagKey(tag.slug)
  IN  IF includeSet # {} /\ nameKey \notin includeSet /\ slugKey \notin includeSet
        THEN FALSE
      ELSE IF excludeSet # {} /\ (nameKey \in excludeSet \/ slugKey \in excludeSet)
        THEN FALSE
      ELSE TRUE

\* createOrderMap(orderList).get(key): the last index of the key, or -1
OrderMapGet(orderList, key) ==
  LET hits == {i \in DOMAIN orderList :
                 normalizeTagKey(orderList[i]) # <<>> /\ normalizeTagKey(orderList[i]) = key}
  IN  IF hits = {} THEN -1 ELSE (CHOOSE i \in hits : \A j \in hits : j <= i) - 1

getTagOrder(orderList, tag) ==
  LET nameKey == normalizeTagKey(tag.name)
      slugKey == normalizeTagKey(tag.slug)
  IN  IF OrderMapGet(orderList, nameKey) >= 0 THEN OrderMapGet(orderList, nameKey)
      ELSE IF OrderMapGet(orderList, slugKey) >= 0 THEN OrderMapGet(orderList, slugKey)
      ELSE Infinity

\* createOverridesMap / createRenameMap: the keys are trimmed and lower-cased
NormalizeKeys(map) ==
  LET keys == {normalizeTagKey(k) : k \in DOMAIN map} \ {<<>>}
  IN  [n \in keys |-> map[CHOOSE k \in DOMAIN map : normalizeTagKey(k) = n]]

\* findOverride(map, tag): NoObject when there is none
findOverride(map, tag) ==
  LET nameKey == normalizeTagKey(tag.name)
      slugKey == normalizeTagKey(tag.slug)
  IN  IF nameKey \in DOMAIN map THEN map[nameKey]
      ELSE IF slugKey \in DOMAIN map THEN map[slugKey]
      ELSE NoObject

\* filterCodeSampleGroups(groups, includeSet, renameMap): the groups it
\* returns; the surviving samples are the input's sample objects, renamed
\* in place
filterCodeSampleGroups(groups, includeSet, renameMap) ==
  LET keepSample(sample) ==
        LET languageKey == normalizeTagKey(sample.language)
        IN  ~(includeSet # {} /\ (languageKey = <<>> \/ languageKey \notin includeSet))
      rename(sample) ==
        LET languageKey == normalizeTagKey(sample.language)
        IN  IF languageKey \in DOMAIN renameMap
              THEN [sample EXCEPT !.language = renameMap[languageKey]]
              ELSE sample
      filtered(group) ==
        LET kept == FilterByFlags(group.samples,
                                  [i \in DOMAIN group.samples |-> keepSample(group.samples[i])])
        IN  [group EXCEPT !.samples = [i \in DOMAIN kept |-> rename(kept[i])]]
      mapped == [g \in DOMAIN groups |-> filtered(groups[g])]
  IN  FilterByFlags(mapped, [g \in DOMAIN mapped |-> mapped[g].samples # <<>>])

\* options.tags?.include and the like: the value under group.key, or the
\* default when the group or the key is missing
OptionOr(entry, group, key, default) ==
  IF group \in DOMAIN entry /\ key \in DOMAIN entry[group] THEN entry[group][key] ELSE default

\* resolveOptions: the part of the result customizeSpec reads. The
\* `operations` key of the entry's options is not copied.
resolveOptions(entry) ==
  [ tags |-> [ include   |-> OptionOr(entry, "tags", "include", NullList),
               exclude   |-> OptionOr(entry, "tags", "exclude", NullList),
               order     |-> OptionOr(entry, "tags", "order", <<>>),
               overrides |-> OptionOr(entry, "tags", "overrides", EmptyMap) ],
    codeSamples |-> [ includeLanguages |->
                        OptionOr(entry, "codeSamples", "includeLanguages", NullList),
                      rename |-> OptionOr(entry, "codeSamples", "rename", EmptyMap) ] ]

\* customizeSpec, step 1 (lines 953-957): the tags that pass the filter
AllowedTags(base, opts) ==
  FilterByFlags(base.tags,
    [i \in DOMAIN base.tags |->
       allowTag(base.tags[i], createNormalizedSet(opts.tags.include),
                createNormalizedSet(opts.tags.exclude))])

\* customizeSpec, lines 959-971: every operation object of the input is
\* assigned its filtered tag references and code-sample groups
CustomizedHeap(objects, base, opts) ==
  LET allowed == AllowedTags(base, opts)
      allowedTagSlugs == {allowed[i].slug : i \in DOMAIN allowed}
      inSpec == Range(base.operations)
  IN  [i \in DOMAIN objects |->
         IF i \notin inSpec THEN objects[i]
         ELSE [objects[i] EXCEPT
                 !.tags = FilterByFlags(@, [t \in DOMAIN @ |-> @[t].slug \in allowedTagSlugs]),
                 !.codeSampleGroups =
                    filterCodeSampleGroups(@,
                      createNormalizedSet(opts.codeSamples.includeLanguages),
                      NormalizeKeys(opts.codeSamples.rename))]]

\* lines 972: the operations left with at least one tag
SurvivingOperations(objects, base) ==
  FilterByFlags(base.operations,
                [k \in DOMAIN base.operations |-> objects[base.operations[k]].tags # <<>>])

\* lines 975-987: tag copies with back-references rebuilt through tagMap
\* (keyed by slug: of two tags with one slug the later copy owns the entry)
RebuiltTags(objects, allowed, operations) ==
  LET owns(p) == \A q \in DOMAIN allowed : allowed[q].slug = allowed[p].slug => q <= p
      pushes(p, o) ==
        LET refs == objects[o].tags
            hit  == FilterByFlags(refs, [t \in DOMAIN refs |-> refs[t].slug = allowed[p].slug])
        IN  [t \in DOMAIN hit |-> o]
  IN  [p \in DOMAIN allowed |->
         [allowed[p] EXCEPT
            !.operations = IF owns(p)
                             THEN Flatten([k \in DOMAIN operations |-> pushes(p, operations[k])])
                             ELSE <<>>]]

\* lines 991-1001: overrides
WithOverride(tag, overridesMap) ==
  LET override == findOverride(overridesMap, tag)
      has(key) == isPlainObject(override) /\ HasText(override, key)
      displayName == IF has("label") THEN override.label ELSE tag.name
  IN  [tag EXCEPT
         !.description = IF has("description") THEN override.description ELSE @,
         !.metadata = [ displayName  |-> displayName,
                        sidebarLabel |-> IF has("sidebarLabel") THEN override.sidebarLabel
                                         ELSE displayName ]]

\* lines 1003-1008: the comparator of the final sort
CompareCustomizedTags(orderList, a, b) ==
  LET orderA == getTagOrder(orderList, a)
      orderB == getTagOrder(orderList, b)
  IN  IF orderA # orderB THEN orderA - orderB ELSE localeCompare(a.name, b.name)

Deref(objects, ids) == [k \in DOMAIN ids |-> objects[ids[k]]]

\* mutant: the spec-level counts are those of the unfiltered input
CustomizedStatsStale(objects, tags, operations) ==
  [ tags                 |-> Len(tags),
    operations           |-> Len(objects),
    untaggedOperations   |-> 0,
    deprecatedOperations |-> Cardinality({k \in DOMAIN objects : objects[k].deprecated}) ]

\* lines 1024-1029
CustomizedStats(objects, tags, operations) ==
  [ tags                 |-> Len(tags),
    operations           |-> Len(operations),
    untaggedOperations   |-> Cardinality({k \in DOMAIN operations :
                                            objects[operations[k]].tags = <<>>}),
    deprecatedOperations |-> Cardinality({k \in DOMAIN operations :
                                            objects[operations[k]].deprecated}) ]

\* the tags of the spec customizeSpec returns; `mutated` is the heap after
\* lines 959-971
CustomizedTags(mutated, base, opts) ==
  LET allowed    == AllowedTags(base, opts)
      operations == SurvivingOperations(mutated, base)
      rebuilt    == RebuiltTags(mutated, allowed, operations)
      nonEmpty   == FilterByFlags(rebuilt, [p \in DOMAIN rebuilt |-> rebuilt[p].operations # <<>>])
      overridden == [p \in DOMAIN nonEmpty |->
                       WithOverride(nonEmpty[p], NormalizeKeys(opts.tags.overrides))]
      cmp(a, b)  == CompareCustomizedTags(opts.tags.order, a, b)
      sorted     == SortWith(overridden, cmp)
  IN  [p \in DOMAIN sorted |->
         [sorted[p] EXCEPT !.stats = TagStats(Deref(mutated, sorted[p].operations))]]

\* lines 1031-1068: document.tags reconciled with the surviving tags
ReconciledDocumentTags(docTags, tags, orderList) ==
  LET keyOf(docTag) == IF isPlainObject(docTag) /\ "name" \in DOMAIN docTag
                         THEN normalizeTagKey(docTag.name) ELSE <<>>
      matches(key) == {p \in DOMAIN tags : normalizeTagKey(tags[p].name) = key
                                           \/ normalizeTagKey(tags[p].slug) = key}
      lookup(key) == tags[CHOOSE p \in matches(key) : \A q \in matches(key) : q <= p]
      kept == FilterByFlags(docTags,
                [i \in DOMAIN docTags |->
                   keyOf(docTags[i]) # <<>> /\ matches(keyOf(docTags[i])) # {}])
      mapped == [i \in DOMAIN kept |->
                   LET match == lookup(keyOf(kept[i]))
                   IN  IF match.description = Null THEN WithoutKey(kept[i], "description")
                       ELSE MergeMaps(kept[i], [description |-> match.description])]
      orderOf(docTag) == getTagOrder(orderList, lookup(keyOf(docTag)))
      cmp(a, b) == IF orderOf(a) # orderOf(b) THEN orderOf(a) - orderOf(b)
                   ELSE localeCompare(a.name, b.name)
      orderMapSize == Cardinality({normalizeTagKey(orderList[i]) : i \in DOMAIN orderList}
                                  \ {<<>>})
  IN  IF orderMapSize > 0 THEN SortWith(mapped, cmp) ELSE mapped

\* the spec customizeSpec returns: { info, servers, tags, operations,
\* document, stats }; it has no `schemas` key. `mutated` is the heap after
\* lines 959-971.
customizeSpec(mutated, base, opts) ==
  LET tags       == CustomizedTags(mutated, base, opts)
      operations == SurvivingOperations(mutated, base)
  IN  [ tags       |-> tags,
        operations |-> operations,
        stats      |-> CustomizedStats(mutated, tags, operations) ]

-----------------------------------------------------------------------------
(* Runtime artifact builder: src/unnamed/part_006 lines 1396-1619          *)

OPERATIONS_PER_CHUNK == 50

ToUpperChar(c) ==
  IF c \in Range(LowerChars)
    THEN UpperChars[CHOOSE i \in DOMAIN LowerChars : LowerChars[i] = c]
    ELSE c

ToUpperCase(s) == [i \in DOMAIN s |-> ToUpperChar(s[i])]

StringField(object, key) == IF key \in DOMAIN object THEN object[key] ELSE <<>>

\* createOperationDigest(operation): NoObject for the code's null
createOperationDigest(operation) ==
  IF ~isPlainObject(operation) \/ "slug" \notin DOMAIN operation THEN NoObject
  ELSE IF StringField(operation, "path") = <<>> /\ StringField(operation, "summary") = <<>>
    THEN NoObject
  ELSE [ slug       |-> operation.slug,
         method     |-> ToUpperCase(StringField(operation, "method")),
         path       |-> StringField(operation, "path"),
         summary    |-> StringField(operation, "summary"),
         deprecated |-> operation.deprecated ]

\* mutant: the chunk stores the digest instead of the full record
stripOperationToDigest(operation) == createOperationDigest(operation)

\* stripOperationForChunk(operation): every field but `raw`
stripOperationForChunk(operation) ==
  IF ~isPlainObject(operation) THEN NoObject ELSE WithoutKey(operation, "raw")

\* createChunkId(tagSlug, chunkIndex): `tag:${base}:chunk:${chunkIndex}`
createChunkId(tagSlug, chunkIndex) ==
  <<"t","a","g",":">> \o (IF tagSlug # <<>> THEN tagSlug ELSE UntaggedSlug)
    \o <<":","c","h","u","n","k",":">> \o IntToStr(chunkIndex)

\* lines 1433-1451: the stripped records of a tag's operations that have a slug
ChunkCandidates(objects, tag) ==
  LET stripped == [k \in DOMAIN tag.operations |->
                     stripOperationForChunk(objects[tag.operations[k]])]
  IN  FilterByFlags(stripped,
        [k \in DOMAIN stripped |->
           isPlainObject(stripped[k]) /\ StringField(stripped[k], "slug") # <<>>])

\* mutant: the slice runs one element past the capacity
ChunkSliceOverlong(chunkCandidates, start) ==
  SubSeq(chunkCandidates, start + 1,
         IF start + OPERATIONS_PER_CHUNK + 1 < Len(chunkCandidates)
           THEN start + OPERATIONS_PER_CHUNK + 1 ELSE Len(chunkCandidates))

\* chunkCandidates.slice(start, start + OPERATIONS_PER_CHUNK)
ChunkSlice(chunkCandidates, start) ==
  SubSeq(chunkCandidates, start + 1,
         IF start + OPERATIONS_PER_CHUNK < Len(chunkCandidates)
           THEN start + OPERATIONS_PER_CHUNK ELSE Len(chunkCandidates))

\* operationsMap of a slice: a later entry with the same slug replaces an
\* earlier one
OperationsMap(slice) ==
  [s \in {slice[i].slug : i \in DOMAIN slice} |->
     slice[CHOOSE i \in DOMAIN slice :
             slice[i].slug = s /\ \A j \in DOMAIN slice : slice[j].slug = s => j <= i]]

\* lines 1465-1484: the chunks of one tag, for start = 0, 50, 100, ...
TagChunks(objects, tag) ==
  LET chunkCandidates == ChunkCandidates(objects, tag)
      count == (Len(chunkCandidates) + OPERATIONS_PER_CHUNK - 1) \div OPERATIONS_PER_CHUNK
      rawChunks == [k \in 1..count |->
                      LET start == (k - 1) * OPERATIONS_PER_CHUNK
                          slice == ChunkSlice(chunkCandidates, start)
                      IN  [ id         |-> createChunkId(tag.slug, start \div OPERATIONS_PER_CHUNK),
                            tagSlug    |-> tag.slug,
                            operations |-> OperationsMap(slice) ]]
  IN  FilterByFlags(rawChunks, [k \in 1..count |-> DOMAIN rawChunks[k].operations # {}])

\* operationChunkLookup: the first chunk to hold a slug keeps it
ChunkLookup(chunks) ==
  LET slugs == UNION {DOMAIN chunks[k].operations : k \in DOMAIN chunks}
  IN  [s \in slugs |->
         chunks[CHOOSE k \in DOMAIN chunks :
                  s \in DOMAIN chunks[k].operations
                  /\ \A j \in DOMAIN chunks : s \in DOMAIN chunks[j].operations => k <= j].id]

\* lines 1433-1446, 1453-1463
TagWithDigests(objects, tag) ==
  LET digests == [k \in DOMAIN tag.operations |->
                    createOperationDigest(objects[tag.operations[k]])]
  IN  [ name       |-> tag.name,
        slug       |-> tag.slug,
        isFallback |-> tag.isFallback,
        stats      |-> tag.stats,
        metadata   |-> tag.metadata,
        operations |-> FilterByFlags(digests, [k \in DOMAIN digests |-> isPlainObject(digests[k])]) ]

TagIndexEntries(objects, tag) ==
  LET withDigests == TagWithDigests(objects, tag)
      tagName == IF isPlainObject(tag.metadata) THEN tag.metadata.displayName ELSE tag.name
  IN  [k \in DOMAIN withDigests.operations |->
         MergeMaps(withDigests.operations[k],
                   [tagSlug |-> tag.slug,
                    tagName |-> IF tagName # <<>> THEN tagName ELSE tag.slug])]

\* lines 1487-1519: schemaList; spec.schemas absent gives the empty list
RuntimeSchemaList(normalizedSpec) ==
  IF "schemas" \notin DOMAIN normalizedSpec THEN <<>>
  ELSE [i \in DOMAIN normalizedSpec.schemas |->
          [name |-> normalizedSpec.schemas[i].name, slug |-> normalizedSpec.schemas[i].slug]]

\* createRuntimeSpecArtifacts(spec); the chunk's fileName is a function of
\* its id and is left out
createRuntimeSpecArtifacts(objects, normalizedSpec) ==
  LET sourceTags == normalizedSpec.tags
      chunks == Flatten([t \in DOMAIN sourceTags |-> TagChunks(objects, sourceTags[t])])
  IN  [ manifest             |-> [stats |-> normalizedSpec.stats],
        tagsWithDigests      |-> [t \in DOMAIN sourceTags |->
                                    TagWithDigests(objects, sourceTags[t])],
        allOperationDigests  |-> Flatten([t \in DOMAIN sourceTags |->
                                            TagIndexEntries(objects, sourceTags[t])]),
        schemaList           |-> RuntimeSchemaList(normalizedSpec),
        chunks               |-> chunks,
        operationChunkLookup |-> ChunkLookup(chunks) ]

-----------------------------------------------------------------------------
(* Values of the variables a behaviour does not use                        *)

IdleSlug == seen = EmptyMap /\ issued = <<>>

IdlePipelineData ==
  /\ document = NoObject
  /\ tagSeen = EmptyMap /\ opSeen = EmptyMap /\ tagsByName = <<>> /\ heap = <<>>
  /\ spec = NoObject /\ entryOptions = NoObject /\ options = NoObject
  /\ custom = NoObject /\ artifacts = NoObject

IdlePipeline == pc = "idle" /\ IdlePipelineData

IdlePure == input = NoObject /\ output = NoObject

-----------------------------------------------------------------------------
(* One slug factory instance fed a list of strings                         *)

MaxStrLen == 3
MaxIssued == 3
SlugAlphabet == {"a", "A", "-", "2"}

StringsUpTo(alphabet, n) == UNION {[1..k -> alphabet] : k \in 0..n}

SlugInputs == StringsUpTo(SlugAlphabet, MaxStrLen)

InitSlug == mode = "slug" /\ seen = EmptyMap /\ issued = <<>> /\ IdlePipeline /\ IdlePure

\* one call factory(value) of a factory made by createSlugFactory()
IssueSlug(value) ==
  /\ mode = "slug"
  /\ Len(issued) < MaxIssued
  /\ issued' = Append(issued, FactorySlug(seen, value, DefaultItemSlug, DefaultItemSlug))
  /\ seen' = FactorySeen(seen, value, DefaultItemSlug, DefaultItemSlug)
  /\ UNCHANGED <<mode, pc, document, tagSeen, opSeen, tagsByName, heap, spec,
                 entryOptions, options, custom, artifacts, input, output>>

NextSlug == \E value \in SlugInputs : IssueSlug(value)

SpecSlug == InitSlug /\ [][NextSlug]_vars

(* C1: the N slugs one stateful slug factory returns for N inputs are      *)
(* pairwise distinct.                                                      *)
SlugsPairwiseDistinct == \A i, j \in DOMAIN issued : i # j => issued[i] # issued[j]

-----------------------------------------------------------------------------
(* The documents and options the pipeline is run on                        *)

MaxOps == 3

NameId == <<"i","d">>
NameLimit == <<"l","i","m","i","t">>
InPath == <<"p","a","t","h">>
InQuery == <<"q","u","e","r","y">>
NameIdParam == <<"I","d","P","a","r","a","m">>
RefIdParam == ParamRefPrefix \o NameIdParam
DescriptionText == <<"d">>
LabelPay == <<"P","a","y">>

\* document.components.parameters
ParameterComponents ==
  (NameIdParam :> [name |-> NameId, in |-> InPath, required |-> TRUE])

\* pathItem.parameters of each path of the documents
PathLevelParameters(pathKey) ==
  IF pathKey = PathUserById
    THEN <<[name |-> NameId, in |-> InPath, required |-> FALSE]>>
    ELSE <<>>

\* values of a path item's method keys (plain objects)
RawOperations ==
  << [tags |-> <<NameCore>>, parameters |-> <<[ref |-> RefIdParam]>>],
     [operationId |-> IdList, tags |-> <<NameCore, NamePayments>>, deprecated |-> TRUE,
      parameters  |-> <<[name |-> NameId, in |-> InPath, required |-> TRUE]>>,
      codeSamples |-> <<[lang |-> LangCurl, source |-> SourceText],
                        [lang |-> LangPython, label |-> LabelBasic, source |-> SourceText]>>],
     [operationId |-> IdList2, tags |-> <<NamePaymentsCap, NamePayments2>>],
     [operationId |-> IdListPadded, tags |-> <<>>],
     [deprecated |-> FALSE] >>

\* the rest of the document: declared tags and the names of components.schemas
DocSkeletons ==
  << [schemas |-> <<>>],
     [tags    |-> <<[name |-> NamePayments, description |-> DescriptionText],
                    [name |-> NameCore]>>,
      schemas |-> <<SchemaPet, SchemaPetLower, SchemaPet2>>] >>

\* the `options` of an integration entry
EntryOptions ==
  << [watchSpec |-> TRUE],
     [tags |-> [include |-> <<NamePayments>>]],
     [tags |-> [include |-> <<NamePayments>>, exclude |-> <<NamePayments>>]],
     [tags |-> [exclude |-> <<NameCoreLower>>]],
     [tags |-> [include |-> <<NamePaymentsLoud, NameBlank>>]],
     [tags |-> [include |-> <<NameBlank>>, exclude |-> <<NamePayments2>>]],
     [tags |-> [order |-> <<Untagged, NamePayments>>,
                overrides |-> (NamePaymentsCap :> [label |-> LabelPay])]],
     [codeSamples |-> [includeLanguages |-> <<LangPythonLower>>,
                       rename |-> (LangPython :> LangPy)]],
     [operations |-> [include |-> <<[pathStartsWith |-> PathUsers]>>]] >>

RandomSuffixes == {<<"k","3","x","9","q","1">>, <<"0","z","z","a","b","c">>}

-----------------------------------------------------------------------------
(* The pipeline: loadAndNormalizeSpec, customizeSpec, writeSpecModule      *)

InitPipeline ==
  /\ mode = "pipeline" /\ pc = "load"
  /\ document = NoObject
  /\ tagSeen = EmptyMap /\ opSeen = EmptyMap /\ tagsByName = <<>> /\ heap = <<>>
  /\ spec = NoObject /\ entryOptions = NoObject /\ options = NoObject
  /\ custom = NoObject /\ artifacts = NoObject
  /\ IdleSlug /\ IdlePure

\* The mutable state of one call of loadAndNormalizeSpec: the two slug
\* factories' Maps, tagsByName and the operation objects built so far. It is
\* created by the call (lines 200-205) and dies with it.
StartPass(skeleton) ==
  LET reg == RegisterDeclared([seen |-> EmptyMap, tags |-> <<>>],
                              IF "tags" \in DOMAIN skeleton THEN skeleton.tags ELSE <<>>)
  IN  [tagSeen |-> reg.seen, opSeen |-> EmptyMap, tagsByName |-> reg.tags, heap |-> <<>>]

\* loadAndNormalizeSpec, lines 138-259: the document is parsed and its
\* declared tags are registered. `paths` lists the operation entries the
\* walk has read so far.
LoadDocument(skeleton) ==
  /\ mode = "pipeline" /\ pc = "load"
  /\ document' = MergeMaps(skeleton, [paths |-> <<>>])
  /\ tagSeen' = StartPass(skeleton).tagSeen
  /\ tagsByName' = StartPass(skeleton).tagsByName
  /\ pc' = "paths"
  /\ UNCHANGED <<mode, seen, issued, opSeen, heap, spec, entryOptions, options,
                 custom, artifacts, input, output>>

\* the object built at lines 271-310 for one operation entry
NormalizedOperation(reg, slugSeen, operation, method, pathKey, random) ==
  LET operationId == extractOperationId(operation, method, pathKey, random)
      names == OperationTagNames(operation)
  IN  [ path        |-> pathKey,
        method      |-> method,
        operationId |-> operationId,
        slug        |-> FactorySlug(slugSeen, operationId, OperationDefaultSlug,
                                    OperationDefaultSlug),
        deprecated  |-> ("deprecated" \in DOMAIN operation /\ operation.deprecated),
        tags        |-> [t \in DOMAIN names |->
                           TagRefOf(reg.tags[TagIndexByName(reg.tags,
                                                            RegisteredTagName(names[t]))])],
        parameters  |-> mergeParameters(buildParameterDefinitionMap(ParameterComponents),
                                        PathLevelParameters(pathKey),
                                        IF "parameters" \in DOMAIN operation
                                          THEN operation.parameters ELSE <<>>),
        codeSampleGroups |-> normalizeCodeSamples(operation),
        raw         |-> operation ]

\* one iteration of the walk over the path items' methods (lines 266-318):
\* the state of the pass after the k-th operation entry; an entry that is
\* not a plain object is skipped (line 269)
WalkPlainOperation(pass, operation, k, random) ==
  CHOOSE walked \in UNION
    {{[ heap       |-> Append(pass.heap, normalizedOperation),
        opSeen     |-> FactorySeen(pass.opSeen, normalizedOperation.operationId,
                                   OperationDefaultSlug, OperationDefaultSlug),
        tagSeen    |-> reg.seen,
        tagsByName |-> [i \in DOMAIN reg.tags |->
                          [reg.tags[i] EXCEPT !.operations =
                             @ \o [t \in DOMAIN FilterByFlags(normalizedOperation.tags,
                                      [r \in DOMAIN normalizedOperation.tags |->
                                         normalizedOperation.tags[r].name = reg.tags[i].name])
                                   |-> Len(pass.heap) + 1]]] ] :
        normalizedOperation \in
          {NormalizedOperation(reg, pass.opSeen, operation, MethodOf(k), PathKeyOf(k), random)}} :
     reg \in {RegisterAll([seen |-> pass.tagSeen, tags |-> pass.tagsByName],
                          OperationTagNames(operation))}} : TRUE

\* mutant: the entry is normalized whatever it is
WalkOperationUnchecked(pass, operation, k, random) ==
  CHOOSE walked \in {WalkPlainOperation(before, operation, k, random) :
                       before \in {pass}} : TRUE

\* line 269, then lines 271-318
WalkOperation(pass, operation, k, random) ==
  IF ~isPlainObject(operation) THEN pass
  ELSE CHOOSE walked \in {WalkPlainOperation(before, operation, k, random) :
                            before \in {pass}} : TRUE

NormalizeOperation(operation, random) ==
  /\ mode = "pipeline" /\ pc = "paths"
  /\ Len(document.paths) < MaxOps
  /\ document' = [document EXCEPT !.paths = Append(@, operation)]
  /\ LET pass == WalkOperation([tagSeen |-> tagSeen, opSeen |-> opSeen,
                                tagsByName |-> tagsByName, heap |-> heap],
                               operation, Len(document.paths) + 1, random)
     IN  /\ heap' = pass.heap
         /\ opSeen' = pass.opSeen
         /\ tagSeen' = pass.tagSeen
         /\ tagsByName' = pass.tagsByName
  /\ UNCHANGED <<mode, seen, issued, pc, spec, entryOptions, options, custom,
                 artifacts, input, output>>

\* spec-level statistics (lines 344-349)
NormalizedStats(objects, tags) ==
  [ tags                 |-> Len(tags),
    operations           |-> Len(objects),
    untaggedOperations   |-> Cardinality({i \in DOMAIN objects :
                                \A t \in DOMAIN objects[i].tags : objects[i].tags[t].isFallback}),
    deprecatedOperations |-> Cardinality({i \in DOMAIN objects : objects[i].deprecated}) ]

\* lines 321-363: the tags are ordered, the statistics and the schema list
\* are computed and the normalized spec is returned
NormalizedSpecOf(pass, doc) ==
  LET docTags == IF "tags" \in DOMAIN doc THEN doc.tags ELSE <<>>
      cmp(a, b) == CompareNormalizedTags(docTags, a, b)
      sorted == SortWith(pass.tagsByName, cmp)
      orderedTags == [i \in DOMAIN sorted |->
                        [sorted[i] EXCEPT
                           !.stats = TagStats(Deref(pass.heap, sorted[i].operations))]]
  IN  [ tags       |-> orderedTags,
        operations |-> [i \in DOMAIN pass.heap |-> i],
        stats      |-> NormalizedStats(pass.heap, orderedTags),
        schemas    |-> normalizeSchemas(doc.schemas) ]

FinishNormalize ==
  /\ mode = "pipeline" /\ pc = "paths"
  /\ spec' = NormalizedSpecOf([tagsByName |-> tagsByName, heap |-> heap], document)
  /\ pc' = "normalized"
  /\ UNCHANGED <<mode, seen, issued, document, tagSeen, opSeen, tagsByName, heap,
                 entryOptions, options, custom, artifacts, input, output>>

\* regenerateArtifacts, line 647: customizeSpec(rawSpec, resolvedOptions).
\* The operation objects and rawSpec.document are shared with the input.
Customize(entry) ==
  /\ mode = "pipeline" /\ pc = "normalized"
  /\ entryOptions' = entry
  /\ options' = resolveOptions(entry)
  /\ heap' = CustomizedHeap(heap, spec, options')
  /\ custom' = customizeSpec(heap', spec, options')
  /\ document' = IF "tags" \in DOMAIN document
                   THEN [document EXCEPT
                           !.tags = ReconciledDocumentTags(@, custom'.tags, options'.tags.order)]
                   ELSE document
  /\ pc' = "customized"
  /\ UNCHANGED <<mode, seen, issued, tagSeen, opSeen, tagsByName, spec, artifacts,
                 input, output>>

\* writeSpecModule, line 292: createRuntimeSpecArtifacts(spec)
BuildArtifacts ==
  /\ pc = "customized"
  /\ artifacts' = createRuntimeSpecArtifacts(heap, custom)
  /\ pc' = "built"
  /\ UNCHANGED <<mode, seen, issued, document, tagSeen, opSeen, tagsByName, heap,
                 spec, entryOptions, options, custom, input, output>>

Next ==
  \/ \E s \in DOMAIN DocSkeletons : LoadDocument(DocSkeletons[s])
  \/ \E o \in DOMAIN RawOperations, random \in RandomSuffixes :
       NormalizeOperation(RawOperations[o], random)
  \/ FinishNormalize
  \/ \E e \in DOMAIN EntryOptions : Customize(EntryOptions[e])
  \/ BuildArtifacts

Spec == InitPipeline /\ [][Next]_vars

-----------------------------------------------------------------------------
(* Properties of the pipeline                                              *)

Customized == mode = "pipeline" /\ pc \in {"customized", "built"}

OperationsInTags(tags) == UNION {Range(tags[t].operations) : t \in DOMAIN tags}

(* C2: after customizeSpec every tag's stats.operations is the length of   *)
(* its operation list, and the spec's stats.operations is the number of    *)
(* distinct operations found in at least one surviving tag.                *)
CustomizedStatsAgree ==
  Customized =>
    /\ \A t \in DOMAIN custom.tags :
         custom.tags[t].stats.operations = Len(custom.tags[t].operations)
    /\ custom.stats.operations = Cardinality(OperationsInTags(custom.tags))

\* a customization that dropped an operation and kept one filed under two tags
CustomizedStatsWitness ==
  /\ mode = "pipeline" /\ pc = "customized"
  /\ Len(custom.operations) < Len(spec.operations)
  /\ \E t, u \in DOMAIN custom.tags :
       t # u /\ Range(custom.tags[t].operations) \cap Range(custom.tags[u].operations) # {}

(* C3: customizeSpec leaves its input unmutated: the operation objects     *)
(* (tag lists, code-sample groups, sample languages) and the raw document  *)
(* are the same after the call as before it.                               *)
CustomizeLeavesInputUnmutated ==
  [][(pc = "normalized" /\ pc' = "customized") => (heap' = heap /\ document' = document)]_vars

FullRecordKeys ==
  {"path", "method", "operationId", "slug", "deprecated", "tags", "parameters",
   "codeSampleGroups"}

IsFullRecordFor(record, slug) ==
  \E k \in DOMAIN custom.operations :
    /\ heap[custom.operations[k]].slug = slug
    /\ \A key \in FullRecordKeys :
         key \in DOMAIN record /\ record[key] = heap[custom.operations[k]][key]

DeclaresNoTags(operation) == "tags" \notin DOMAIN operation \/ operation.tags = <<>>

Occurrences(s, x) == Cardinality({i \in DOMAIN s : s[i] = x})

(* C6: an operation declared with an empty or absent tags array is, after  *)
(* normalization, in exactly one tag, named "Untagged", with isFallback    *)
(* true, and in no other tag.                                              *)
UntaggedFallback ==
  (mode = "pipeline" /\ pc \in {"normalized", "customized", "built"}) =>
    \A i \in DOMAIN heap :
      DeclaresNoTags(heap[i].raw) =>
        LET holding == {t \in DOMAIN spec.tags : i \in Range(spec.tags[t].operations)}
        IN  /\ Cardinality(holding) = 1
            /\ \A t \in holding :
                 /\ spec.tags[t].name = Untagged
                 /\ spec.tags[t].isFallback
                 /\ Occurrences(spec.tags[t].operations, i) = 1

\* one operation without a tags key, one with an empty array, next to a tagged one
UntaggedFallbackWitness ==
  /\ mode = "pipeline" /\ pc = "normalized"
  /\ \E i \in DOMAIN heap : "tags" \notin DOMAIN heap[i].raw
  /\ \E i \in DOMAIN heap : "tags" \in DOMAIN heap[i].raw /\ heap[i].raw.tags = <<>>
  /\ \E i \in DOMAIN heap : ~DeclaresNoTags(heap[i].raw)

\* the list names the tag: case-insensitively, by its name or by its slug
TagMatches(tag, list) ==
  \E i \in DOMAIN list :
    /\ Trim(list[i]) # <<>>
    /\ ToLowerCase(Trim(list[i])) \in {ToLowerCase(Trim(tag.name)), ToLowerCase(Trim(tag.slug))}

\* the list has an entry that can name a tag
ListPresent(list) == \E i \in DOMAIN list : Trim(list[i]) # <<>>

(* C9: a tag survives customization only if it matches the include list   *)
(* when one is present (has an entry that is not blank) and does not match *)
(* the exclude list; a tag matching both lists is absent.                  *)
TagFilterRespected ==
  Customized =>
    \A t \in DOMAIN custom.tags :
      /\ ListPresent(OptionOr(entryOptions, "tags", "include", <<>>)) =>
           TagMatches(custom.tags[t], OptionOr(entryOptions, "tags", "include", <<>>))
      /\ ~TagMatches(custom.tags[t], OptionOr(entryOptions, "tags", "exclude", <<>>))

\* include ["payments"], exclude ["payments"] over a spec whose tag
\* "payments" has operations
TagFilterWitness ==
  /\ mode = "pipeline" /\ pc = "customized"
  /\ OptionOr(entryOptions, "tags", "include", <<>>) = <<NamePayments>>
  /\ OptionOr(entryOptions, "tags", "exclude", <<>>) = <<NamePayments>>
  /\ \E t \in DOMAIN spec.tags :
       spec.tags[t].name = NamePayments /\ spec.tags[t].operations # <<>>
  /\ \A t \in DOMAIN custom.tags : custom.tags[t].name # NamePayments

\* README, "Filtering Operations": a matcher object with `path` (exact),
\* `pathStartsWith` (prefix) and `slug` (exact) keys
OperationMatches(operation, matcher) ==
  /\ "path" \in DOMAIN matcher => operation.path = matcher.path
  /\ "pathStartsWith" \in DOMAIN matcher => StartsWith(operation.path, matcher.pathStartsWith)
  /\ "slug" \in DOMAIN matcher => operation.slug = matcher.slug

OperationMatchesAny(operation, matchers) ==
  \E m \in DOMAIN matchers : OperationMatches(operation, matchers[m])

OperationsOption(key) ==
  "operations" \in DOMAIN entryOptions /\ key \in DOMAIN entryOptions.operations

(* C10: when operations.include is configured only operations matched by   *)
(* an include matcher survive customization, and an operation matched by   *)
(* an exclude matcher is removed.                                          *)
OperationFilterRespected ==
  Customized =>
    \A k \in DOMAIN custom.operations :
      /\ OperationsOption("include") =>
           OperationMatchesAny(heap[custom.operations[k]], entryOptions.operations.include)
      /\ OperationsOption("exclude") =>
           ~OperationMatchesAny(heap[custom.operations[k]], entryOptions.operations.exclude)

-----------------------------------------------------------------------------
(* Chunking of a tag with many operations                                  *)

MaxTagOperations == 120

\* the i-th of a run of operations that all declare operationId "list": the
\* operation slug factory issues list, list-2, list-3, ...
ListedOperation(i) ==
  [ path        |-> PathUsers,
    method      |-> MethodOf(i),
    operationId |-> IdList,
    slug        |-> IF i = 1 THEN IdList ELSE IdList \o <<"-">> \o IntToStr(i),
    deprecated  |-> FALSE,
    tags        |-> <<[name |-> NameCore, slug |-> NameCoreLower, isFallback |-> FALSE]>>,
    parameters  |-> <<>>,
    codeSampleGroups |-> <<>>,
    raw         |-> [operationId |-> IdList, tags |-> <<NameCore>>] ]

\* the customized spec of a document whose n operations are all tagged
\* "Core", the first m of them "payments" as well
ManyOperationsSpec(objects, m) ==
  LET tagOf(name, slug, count) ==
        [ name        |-> name,
          slug        |-> slug,
          description |-> Null,
          isFallback  |-> FALSE,
          operations  |-> [i \in 1..count |-> i],
          stats       |-> TagStats([i \in 1..count |-> objects[i]]),
          metadata    |-> [displayName |-> name, sidebarLabel |-> name] ]
      tags == <<tagOf(NameCore, NameCoreLower, Len(objects))>>
                \o (IF m > 0 THEN <<tagOf(NamePayments, NamePayments, m)>> ELSE <<>>)
  IN  [ tags       |-> tags,
        operations |-> [i \in DOMAIN objects |-> i],
        stats      |-> CustomizedStats(objects, tags, [i \in DOMAIN objects |-> i]) ]

InitChunks ==
  /\ mode = "chunks" /\ pc = "customized"
  /\ \E n \in 0..MaxTagOperations, shared \in {0, 1, 2} :
       /\ heap = [i \in 1..n |->
                    IF i <= (shared * n) \div 2
                      THEN [ListedOperation(i) EXCEPT
                              !.tags = @ \o <<[name |-> NamePayments, slug |-> NamePayments,
                                               isFallback |-> FALSE]>>]
                      ELSE ListedOperation(i)]
       /\ custom = ManyOperationsSpec(heap, (shared * n) \div 2)
  /\ document = NoObject
  /\ tagSeen = EmptyMap /\ opSeen = EmptyMap /\ tagsByName = <<>>
  /\ spec = NoObject /\ entryOptions = NoObject /\ options = NoObject
  /\ artifacts = NoObject
  /\ IdleSlug /\ IdlePure

NextChunks == BuildArtifacts

SpecChunks == InitChunks /\ [][NextChunks]_vars

(* C5: no chunk's operation map holds more than the capacity of 50          *)
(* operations, however many operations a tag has.                          *)
ChunkCapacityRespected ==
  (mode = "chunks" /\ pc = "built") =>
    \A c \in DOMAIN artifacts.chunks :
      Cardinality(DOMAIN artifacts.chunks[c].operations) <= OPERATIONS_PER_CHUNK

\* a tag of more than 100 operations: two full chunks and a shorter third
ChunkCapacityWitness ==
  /\ mode = "chunks" /\ pc = "built"
  /\ Len(custom.tags[1].operations) > 2 * OPERATIONS_PER_CHUNK
  /\ \E c, d \in DOMAIN artifacts.chunks :
       /\ artifacts.chunks[c].tagSlug = custom.tags[1].slug
       /\ artifacts.chunks[d].tagSlug = custom.tags[1].slug
       /\ Cardinality(DOMAIN artifacts.chunks[c].operations) = OPERATIONS_PER_CHUNK
       /\ Cardinality(DOMAIN artifacts.chunks[d].operations) \in 1..(OPERATIONS_PER_CHUNK - 1)

-----------------------------------------------------------------------------
(* mergeParameters on its own                                              *)

MaxParams == 2

\* entries of a `parameters` array
ParameterEntries ==
  << [name |-> NameId, in |-> InPath, required |-> FALSE],
     [name |-> NameId, in |-> InPath, required |-> TRUE],
     [name |-> NameId, in |-> InQuery],
     [ref |-> RefIdParam, description |-> DescriptionText],
     [name |-> NameLimit] >>

EntryLists(n) == UNION {[1..k -> DOMAIN ParameterEntries] : k \in 0..n}

EntriesAt(indices) == [i \in DOMAIN indices |-> ParameterEntries[indices[i]]]

InitParams ==
  /\ mode = "params"
  /\ \E p, o \in EntryLists(MaxParams) :
       input = [pathParams |-> EntriesAt(p), operationParams |-> EntriesAt(o)]
  /\ output = NoObject
  /\ pc = "input"
  /\ IdleSlug /\ IdlePipelineData

\* mergeParameters(parameterDefinitions, pathLevelParameters, operation.parameters)
MergeParameters ==
  /\ mode = "params" /\ pc = "input"
  /\ pc' = "merged"
  /\ output' = mergeParameters(buildParameterDefinitionMap(ParameterComponents),
                               input.pathParams, input.operationParams)
  /\ UNCHANGED <<mode, seen, issued, document, tagSeen, opSeen, tagsByName, heap,
                 spec, entryOptions, options, custom, artifacts, input>>

NextParams == MergeParameters

SpecParams == InitParams /\ [][NextParams]_vars

\* the entries of a list that resolve to a parameter, resolved, in order
ResolvedOf(params) ==
  LET resolved == [i \in DOMAIN params |->
                     resolveParameter(buildParameterDefinitionMap(ParameterComponents),
                                      params[i])]
  IN  FilterByFlags(resolved, [i \in DOMAIN resolved |-> isPlainObject(resolved[i])])

(* C7: the merged list has exactly one entry per name:in key; where a      *)
(* path-item parameter and an operation parameter share the key the entry  *)
(* is the operation-level one; every key of either list is kept.           *)
OperationParameterWins ==
  (mode = "params" /\ pc = "merged") =>
    LET pathLevel == ResolvedOf(input.pathParams)
        operationLevel == ResolvedOf(input.operationParams)
    IN  /\ \A i, j \in DOMAIN output :
             ParamKey(output[i]) = ParamKey(output[j]) => i = j
        /\ \A o \in DOMAIN operationLevel :
             (\A later \in DOMAIN operationLevel :
                ParamKey(operationLevel[later]) = ParamKey(operationLevel[o]) => later <= o)
             => \E i \in DOMAIN output : output[i] = operationLevel[o]
        /\ \A p \in DOMAIN pathLevel :
             \E i \in DOMAIN output : ParamKey(output[i]) = ParamKey(pathLevel[p])
        /\ \A i \in DOMAIN output :
             \E q \in DOMAIN (pathLevel \o operationLevel) :
               (pathLevel \o operationLevel)[q] = output[i]

\* path item {id, path, required:false}, operation {id, path, required:true}
\* and a second operation parameter with another key
OperationParameterWitness ==
  /\ mode = "params" /\ pc = "merged"
  /\ input.pathParams = <<[name |-> NameId, in |-> InPath, required |-> FALSE]>>
  /\ Len(input.operationParams) = 2
  /\ input.operationParams[1] = [name |-> NameId, in |-> InPath, required |-> TRUE]
  /\ Len(output) = 2
  /\ output[1] = [name |-> NameId, in |-> InPath, required |-> TRUE]

-----------------------------------------------------------------------------
(* Schema resolution: src/unnamed/part_004 lines 199-282. Property names,  *)
(* `required` entries and type names are only ever compared, so they are   *)
(* plain strings here.                                                     *)

SchemaRefPrefix ==
  <<"#","/","c","o","m","p","o","n","e","n","t","s","/","s","c","h","e","m","a","s","/">>

\* pointer.match(/#\/components\/schemas\/(.+)$/), then the unescaping
decodeSchemaRefName(pointer) ==
  LET at   == FirstIndexOf(pointer, SchemaRefPrefix)
      rest == SubSeq(pointer, at + Len(SchemaRefPrefix), Len(pointer))
  IN  IF at = 0 \/ rest = <<>> THEN Null
      ELSE ReplacePair(ReplacePair(rest, "~", "1", "/"), "~", "0", "~")

SchemaNode == <<"N","o","d","e">>
SchemaMissing == <<"G","o","n","e">>
RefPet == SchemaRefPrefix \o SchemaPet
RefNode == SchemaRefPrefix \o SchemaNode
RefMissing == SchemaRefPrefix \o SchemaMissing
SchemaTree == <<"T","r","e","e">>
SchemaListA == <<"L","i","s","t","A">>
SchemaListB == <<"L","i","s","t","B">>
RefTree == SchemaRefPrefix \o SchemaTree
RefListA == SchemaRefPrefix \o SchemaListA
RefListB == SchemaRefPrefix \o SchemaListB

\* schemaDefinitionMap of the spec the utilities are created for
SchemaComponents ==
  (SchemaPet  :> [ type |-> "object", required |-> <<"id">>,
                   properties |-> [id |-> [type |-> "string"]] ]) @@
  (SchemaNode :> [ required |-> <<"n">>,
                   allOf |-> <<[ref |-> RefNode], [required |-> <<"m">>]>> ]) @@
  (SchemaTree :> [ type |-> "object",
                   properties |-> [child |-> [ref |-> RefTree],
                                   pet   |-> [ref |-> RefPet]] ]) @@
  (SchemaListA :> [ items |-> [ref |-> RefListB] ]) @@
  (SchemaListB :> [ additionalProperties |-> [ref |-> RefListA], title |-> "B" ])

\* getSchemaFromRef(ref): NoObject for undefined
getSchemaFromRef(ref) ==
  LET name == decodeSchemaRefName(ref)
  IN  IF name = Null \/ name \notin DOMAIN SchemaComponents THEN NoObject
      ELSE SchemaComponents[name]

\* Array.from(new Set([...a, ...b]))
RECURSIVE Dedupe(_)
Dedupe(s) ==
  IF s = <<>> THEN <<>>
  ELSE LET init == Dedupe(SubSeq(s, 1, Len(s) - 1))
       IN  IF s[Len(s)] \in Range(init) THEN init ELSE Append(init, s[Len(s)])

ArrayField(object, key) == IF key \in DOMAIN object THEN object[key] ELSE <<>>

\* mergeSchemaObjects(base, override)
mergeSchemaObjects(base, override) ==
  LET spread == MergeMaps(base, override)
      baseProps == SubObject(base, "properties")
      overrideProps == SubObject(override, "properties")
      withProps == IF DOMAIN baseProps # {} \/ DOMAIN overrideProps # {}
                     THEN MergeMaps(spread, [properties |-> MergeMaps(baseProps, overrideProps)])
                     ELSE spread
      baseRequired == ArrayField(base, "required")
      overrideRequired == ArrayField(override, "required")
      withRequired == IF baseRequired # <<>> \/ overrideRequired # <<>>
                        THEN MergeMaps(withProps,
                                       [required |-> Dedupe(baseRequired \o overrideRequired)])
                        ELSE withProps
  IN  IF "allOf" \in DOMAIN base \/ "allOf" \in DOMAIN override
        THEN WithoutKey(withRequired, "allOf") ELSE withRequired

\* mutant: the undefined of an unresolved schema is passed on
OrEmptyKeepsUndefined(resolved) == resolved

\* `value || {}`
OrEmpty(resolved) == IF isPlainObject(resolved) THEN resolved ELSE EmptyMap

(* The result of every recursive call is bound once, as the element of a    *)
(* one-element set, and the steps of resolveSchemaObject are applied to the *)
(* bound value in the order of the code.                                    *)

RECURSIVE resolveSchemaObject(_, _)
RECURSIVE MergeAllOf(_, _, _)

\* `resolveSchemaObject(value, seen) || {}`
ResolveOrEmpty(schema, seenRefs) ==
  CHOOSE result \in {OrEmpty(resolved) :
                       resolved \in {resolveSchemaObject(schema, seenRefs)}} : TRUE

\* mutant: no reference counts as seen
AlreadySeenNever(ref, seenRefs) == FALSE

\* seen.has(ref)
AlreadySeen(ref, seenRefs) == ref \in seenRefs

\* lines 232-245: the $ref branch; `seenRefs` is the set before the add of
\* line 234, `seenNow` the set after it
ResolveRef(schema, seenRefs, seenNow) ==
  IF "ref" \notin DOMAIN schema THEN schema
  ELSE IF ~AlreadySeen(schema.ref, seenRefs)
    THEN CHOOSE result \in
           {mergeSchemaObjects(target, WithoutKey(schema, "ref")) :
              target \in {ResolveOrEmpty(getSchemaFromRef(schema.ref), seenNow)}} : TRUE
  ELSE WithoutKey(schema, "ref")

\* the forEach of lines 248-253 over the entries of the original allOf array
MergeAllOf(workingSchema, entries, seenRefs) ==
  IF entries = <<>> THEN workingSchema
  ELSE CHOOSE result \in
         {MergeAllOf(merged, Tail(entries), seenRefs) :
            merged \in {IF isPlainObject(resolved)
                          THEN mergeSchemaObjects(workingSchema, resolved)
                          ELSE workingSchema :
                        resolved \in {resolveSchemaObject(Head(entries), seenRefs)}}} : TRUE

\* lines 247-255
ResolveAllOf(workingSchema, seenNow) ==
  IF "allOf" \in DOMAIN workingSchema
    THEN WithoutKey(MergeAllOf(workingSchema, workingSchema.allOf, seenNow), "allOf")
    ELSE workingSchema

\* lines 257-263
ResolveProperties(workingSchema, seenNow) ==
  IF "properties" \in DOMAIN workingSchema
    THEN [workingSchema EXCEPT !.properties =
            [key \in DOMAIN @ |-> ResolveOrEmpty(@[key], seenNow)]]
    ELSE workingSchema

\* lines 265-267
ResolveItems(workingSchema, seenNow) ==
  IF "items" \in DOMAIN workingSchema /\ isPlainObject(workingSchema.items)
    THEN [workingSchema EXCEPT !.items = ResolveOrEmpty(@, seenNow)]
    ELSE workingSchema

\* lines 269-274
ResolveAdditionalProperties(workingSchema, seenNow) ==
  IF "additionalProperties" \in DOMAIN workingSchema
       /\ isPlainObject(workingSchema.additionalProperties)
    THEN [workingSchema EXCEPT !.additionalProperties = ResolveOrEmpty(@, seenNow)]
    ELSE workingSchema

\* lines 276-279
InferType(workingSchema) ==
  IF "type" \in DOMAIN workingSchema THEN workingSchema
  ELSE IF "properties" \in DOMAIN workingSchema
    THEN MergeMaps(workingSchema, [type |-> "object"])
  ELSE IF "items" \in DOMAIN workingSchema
    THEN MergeMaps(workingSchema, [type |-> "array"])
  ELSE workingSchema

\* resolveSchemaObject(schema, seen): NoObject for undefined
resolveSchemaObject(schema, seenRefs) ==
  IF ~isPlainObject(schema) THEN NoObject
  ELSE
    LET seenNow == IF "ref" \in DOMAIN schema THEN seenRefs \cup {schema.ref} ELSE seenRefs
    IN  CHOOSE result \in
          {InferType(afterAdditional) : afterAdditional \in
          {ResolveAdditionalProperties(afterItems, seenNow) : afterItems \in
          {ResolveItems(afterProps, seenNow) : afterProps \in
          {ResolveProperties(afterAllOf, seenNow) : afterAllOf \in
          {ResolveAllOf(afterRef, seenNow) : afterRef \in
          {ResolveRef(schema, seenRefs, seenNow)}}}}}} : TRUE

MaxAllOf == 2

\* what a schema carries next to its allOf
OwnParts ==
  << [title |-> "T"],
     [required |-> <<"c">>],
     [required |-> <<"a">>, properties |-> [a |-> [type |-> "string"]]],
     [ref |-> RefPet],
     [ref |-> RefNode, required |-> <<"c">>],
     [ref |-> RefMissing],
     [ref |-> RefMissing, title |-> "T"] >>

\* entries of an allOf array
AllOfEntries ==
  << [required |-> <<"a">>],
     [required |-> <<"b">>],
     [required |-> <<"a", "c">>, properties |-> [c |-> [items |-> [title |-> "I"]]]],
     [ref |-> RefPet],
     [ref |-> RefNode],
     [allOf |-> <<[required |-> <<"d">>]>>],
     NotAnObject >>

AllOfLists(n) == UNION {[1..k -> DOMAIN AllOfEntries] : k \in 0..n}

InitSchema ==
  /\ mode = "schema" /\ pc = "input"
  /\ \E own \in DOMAIN OwnParts :
       \/ input = OwnParts[own]
       \/ \E entries \in AllOfLists(MaxAllOf) :
            input = MergeMaps(OwnParts[own],
                              [allOf |-> [e \in DOMAIN entries |-> AllOfEntries[entries[e]]]])
  /\ output = NoObject
  /\ IdleSlug /\ IdlePipelineData

\* resolveSchemaObject(schema) as the form utilities call it
ResolveSchema ==
  /\ mode = "schema" /\ pc = "input"
  /\ output' = resolveSchemaObject(input, {})
  /\ pc' = "resolved"
  /\ UNCHANGED <<mode, seen, issued, document, tagSeen, opSeen, tagsByName, heap,
                 spec, entryOptions, options, custom, artifacts, input>>

NextSchema == ResolveSchema

SpecSchema == InitSchema /\ [][NextSchema]_vars

(* C8: resolving a schema with allOf yields a schema with no allOf key     *)
(* whose `required` holds the `required` entries of every allOf entry.     *)
AllOfRequiredIsUnion ==
  (mode = "schema" /\ pc = "resolved" /\ "allOf" \in DOMAIN input) =>
    /\ "allOf" \notin DOMAIN output
    /\ \A e \in DOMAIN input.allOf :
         isPlainObject(input.allOf[e]) =>
           Range(ArrayField(input.allOf[e], "required"))
             \subseteq Range(ArrayField(output, "required"))

-----------------------------------------------------------------------------
(* Consistency of tags and operations after customizeSpec                  *)

\* the tag a reference { name, slug, isFallback } of an operation stands for
RefersTo(tagRef, tag) == tagRef.name = tag.name /\ tagRef.slug = tag.slug

(* C11: after customizeSpec every surviving tag has an operation, every     *)
(* surviving operation has a tag reference, every tag reference of a       *)
(* surviving operation names a surviving tag, and an operation is in a     *)
(* tag's list exactly when the tag is among the operation's references.    *)
TagsAndOperationsConsistent ==
  Customized =>
    /\ \A t \in DOMAIN custom.tags : custom.tags[t].operations # <<>>
    /\ \A k \in DOMAIN custom.operations : heap[custom.operations[k]].tags # <<>>
    /\ \A k \in DOMAIN custom.operations :
         \A r \in DOMAIN heap[custom.operations[k]].tags :
           \E t \in DOMAIN custom.tags :
             RefersTo(heap[custom.operations[k]].tags[r], custom.tags[t])
    /\ \A t \in DOMAIN custom.tags : \A k \in DOMAIN custom.operations :
         custom.operations[k] \in Range(custom.tags[t].operations)
           <=> \E r \in DOMAIN heap[custom.operations[k]].tags :
                 RefersTo(heap[custom.operations[k]].tags[r], custom.tags[t])

-----------------------------------------------------------------------------
(* Order of the tags of the customized spec                                *)

\* position of the tag of this name in the normalized spec, whose tags are
\* in document-declared order, then alphabetical with the fallback tag last
NormalizedPosition(name) == CHOOSE p \in DOMAIN spec.tags : spec.tags[p].name = name

IsListed(tag) == getTagOrder(options.tags.order, tag) # Infinity

(* C12: in the customized spec the tags named in the explicit order list   *)
(* come first, in list order; the remaining tags follow in the order of    *)
(* the normalized spec: document-declared order, then the undeclared tags  *)
(* alphabetically with the fallback tag last.                              *)
CustomizedTagOrder ==
  Customized =>
    \A t, u \in DOMAIN custom.tags :
      t < u =>
        LET a == custom.tags[t]
            b == custom.tags[u]
        IN  /\ IsListed(b) => IsListed(a)
            /\ (IsListed(a) /\ IsListed(b)) =>
                 getTagOrder(options.tags.order, a) <= getTagOrder(options.tags.order, b)
            /\ (~IsListed(a) /\ ~IsListed(b)) =>
                 NormalizedPosition(a.name) < NormalizedPosition(b.name)

-----------------------------------------------------------------------------
(* Spec-level statistics of the customized spec                            *)

\* the surviving operations whose every tag reference is the fallback tag
FallbackOnlyOperations ==
  {k \in DOMAIN custom.operations :
     \A r \in DOMAIN heap[custom.operations[k]].tags :
       heap[custom.operations[k]].tags[r].isFallback}

(* C13: after customizeSpec, stats.untaggedOperations is the number of     *)
(* surviving operations whose every tag reference is the fallback tag.     *)
UntaggedOperationsCounted ==
  Customized => custom.stats.untaggedOperations = Cardinality(FallbackOnlyOperations)

-----------------------------------------------------------------------------
(* Several calls of loadAndNormalizeSpec in flight: two over the same      *)
(* document and one over another. `input` holds the three documents,       *)
(* `output` the state of the three passes; a pass owns its slug factories. *)

MaxPassOps == 2

PassIds == {1, 2, 3}

\* the operation entries the documents of the passes are made of: one
\* without operationId, "list" and " List "
PassOperations == <<RawOperations[1], RawOperations[2], RawOperations[4]>>

PathLists(n) == UNION {[1..k -> DOMAIN PassOperations] : k \in 0..n}

OtherDocument == MergeMaps(DocSkeletons[2], [paths |-> <<RawOperations[2]>>])

\* a pass that has not started
NewPass == [at |-> "load", read |-> 0, state |-> NoObject, result |-> NoObject]

InitPasses ==
  /\ mode = "passes" /\ pc = "sequential"
  /\ \E s \in DOMAIN DocSkeletons, paths \in PathLists(MaxPassOps) :
       LET doc == MergeMaps(DocSkeletons[s],
                            [paths |-> [k \in DOMAIN paths |-> PassOperations[paths[k]]]])
       IN  input = <<doc, doc, OtherDocument>>
  /\ output = [p \in PassIds |-> NewPass]
  /\ IdleSlug /\ IdlePipelineData

\* `pc` records whether a pass has taken a step while another pass was in
\* the middle of its walk
Interleaving(p) ==
  pc' = IF \E q \in PassIds \ {p} : output[q].at = "paths" THEN "interleaved" ELSE pc

UnchangedByPasses ==
  UNCHANGED <<mode, seen, issued, document, tagSeen, opSeen, tagsByName, heap,
              spec, entryOptions, options, custom, artifacts, input>>

\* lines 138-259 of the call p
PassLoad(p) ==
  /\ mode = "passes" /\ output[p].at = "load"
  /\ output' = [output EXCEPT ![p] = [@ EXCEPT !.at = "paths",
                                                !.state = StartPass(input[p])]]
  /\ Interleaving(p)
  /\ UnchangedByPasses

\* lines 266-318 of the call p, for its next operation entry
PassOperation(p, random) ==
  /\ mode = "passes" /\ output[p].at = "paths"
  /\ output[p].read < Len(input[p].paths)
  /\ output' = [output EXCEPT ![p] =
                  [@ EXCEPT !.read = @ + 1,
                            !.state = WalkOperation(@, input[p].paths[output[p].read + 1],
                                                    output[p].read + 1, random)]]
  /\ Interleaving(p)
  /\ UnchangedByPasses

\* lines 321-363 of the call p
PassFinish(p) ==
  /\ mode = "passes" /\ output[p].at = "paths"
  /\ output[p].read = Len(input[p].paths)
  /\ output' = [output EXCEPT ![p] =
                  [@ EXCEPT !.at = "done",
                            !.result = NormalizedSpecOf(output[p].state, input[p])]]
  /\ Interleaving(p)
  /\ UnchangedByPasses

NextPasses ==
  \/ \E p \in PassIds : PassLoad(p)
  \/ \E p \in PassIds, random \in RandomSuffixes : PassOperation(p, random)
  \/ \E p \in PassIds : PassFinish(p)

SpecPasses == InitPasses /\ [][NextPasses]_vars

\* the slugs a finished pass assigned: per tag name, per operation entry in
\* document order, per schema name
SlugsOfPass(p) ==
  [ tags       |-> {<<output[p].result.tags[t].name, output[p].result.tags[t].slug>> :
                      t \in DOMAIN output[p].result.tags},
    operations |-> [i \in DOMAIN output[p].state.heap |-> output[p].state.heap[i].slug],
    schemas    |-> [i \in DOMAIN output[p].result.schemas |->
                      <<output[p].result.schemas[i].name, output[p].result.schemas[i].slug>>] ]

BothPassesDone == mode = "passes" /\ output[1].at = "done" /\ output[2].at = "done"

(* C14: two passes over the same document, each with its own slug          *)
(* factories, run one after the other or interleaved with each other and   *)
(* with a pass over another document, assign the same slug to every tag,   *)
(* operation and schema.                                                   *)
SlugsStableAcrossPasses == BothPassesDone => SlugsOfPass(1) = SlugsOfPass(2)

\* three finished passes that were interleaved, the two over a document in
\* which the operation slug factory had to add a suffix
SlugsStableWitness ==
  /\ BothPassesDone /\ output[3].at = "done" /\ pc = "interleaved"
  /\ \E i \in DOMAIN output[1].state.heap :
       output[1].state.heap[i].slug
         # toSlug(output[1].state.heap[i].operationId, OperationDefaultSlug)

\* the names and slugs of a schema list
SchemaNamesAndSlugs(schemas) ==
  [i \in DOMAIN schemas |-> [name |-> schemas[i].name, slug |-> schemas[i].slug]]

(* C29: customization leaves the component schemas alone: every schema of  *)
(* the normalized spec's list is, with its name and slug, in the           *)
(* customized spec and in the runtime schema list built from it.           *)
SchemasSurviveCustomization ==
  /\ Customized =>
       /\ "schemas" \in DOMAIN custom
       /\ SchemaNamesAndSlugs(custom.schemas) = SchemaNamesAndSlugs(spec.schemas)
  /\ (mode = "pipeline" /\ pc = "built") =>
       artifacts.schemaList = SchemaNamesAndSlugs(spec.schemas)

-----------------------------------------------------------------------------
(* The generated runtime module: src/unnamed/part_006 lines 299-316 and    *)
(* 377-593. `artifacts` holds what writeSpecModule embeds in the module    *)
(* and writes to the chunk files, `input` the module's mutable state,      *)
(* `output` the calls in flight. A parsed chunk is an object of its own    *)
(* (`objects`), shared by reference between the cache and the callers.     *)

\* chunkIdsByTag of lines 301-312
ChunkIdsByTag(chunks) ==
  [slug \in {chunks[k].tagSlug : k \in DOMAIN chunks} |->
     LET own == FilterByFlags(chunks, [k \in DOMAIN chunks |-> chunks[k].tagSlug = slug])
     IN  [k \in DOMAIN own |-> own[k].id]]

\* the chunk file written for a chunk id: JSON.stringify(chunk.operations)
ChunkFiles(chunks) ==
  [id \in {chunks[k].id : k \in DOMAIN chunks} |->
     chunks[CHOOSE k \in DOMAIN chunks : chunks[k].id = id].operations]

RuntimeModule(built) ==
  [ tagChunkMap          |-> ChunkIdsByTag(built.chunks),
    operationChunkLookup |-> built.operationChunkLookup,
    chunkFiles           |-> ChunkFiles(built.chunks) ]

MaxCalls == 2

\* chunkPromises.has(chunkId)
InFlight(module, chunkId) == chunkId \in module.chunkPromises

\* loadChunk(chunkId) up to its first await (lines 420-436): in a server
\* build every call reads the file; in the browser a cached or an in-flight
\* chunk is reused and otherwise the import is started and remembered
InvokeLoadChunk(module, chunkId) ==
  IF module.server THEN [module EXCEPT !.reads[chunkId] = @ + 1]
  ELSE IF chunkId \in DOMAIN module.chunkCache THEN module
  ELSE IF InFlight(module, chunkId) THEN module
  ELSE [module EXCEPT !.reads[chunkId] = @ + 1, !.chunkPromises = @ \cup {chunkId}]

\* mutant: the operation is deleted from the shared object in the browser too
evictOperationFromChunkAnywhere(module, chunkId, object, operationSlug) ==
  LET left == module.objects[object].slugs \ {operationSlug}
  IN  [module EXCEPT
         !.objects[object].slugs = left,
         !.chunkCache = IF left = {} THEN WithoutKey(@, chunkId) ELSE @]

\* evictOperationFromChunk(chunkId, operationsMap, operationSlug), lines 381-389
evictOperationFromChunk(module, chunkId, object, operationSlug) ==
  IF ~module.server THEN module
  ELSE LET left == module.objects[object].slugs \ {operationSlug}
       IN  [module EXCEPT
              !.objects[object].slugs = left,
              !.chunkCache = IF left = {} THEN WithoutKey(@, chunkId) ELSE @]

NullResult == [isNull |-> TRUE]

\* mutant: the global lookup is never consulted
LookupChunkNever(lookup, operationSlug) == Null

\* operationChunkLookup[operationSlug]; Null for undefined
LookupChunk(lookup, operationSlug) ==
  IF operationSlug \in DOMAIN lookup THEN lookup[operationSlug] ELSE Null

\* loadOperation, lines 576-578: the step to the global lookup
LookupStep(call) ==
  LET chunkId == LookupChunk(artifacts.operationChunkLookup, call.slug)
  IN  IF chunkId = Null THEN [call EXCEPT !.at = "done", !.result = NullResult]
      ELSE [call EXCEPT !.at = "await", !.via = "lookup", !.awaiting = chunkId,
                        !.queue = <<>>]

\* tagChunkMap[tagSlug] as the list `ids`; empty when the tag has no chunks
ChunkIdsOf(tagSlug) ==
  IF tagSlug \in DOMAIN artifacts.tagChunkMap THEN artifacts.tagChunkMap[tagSlug] ELSE <<>>

\* a call up to its first await
StartCall(fn, operationSlug, tagSlug) ==
  LET ids == ChunkIdsOf(tagSlug)
      call == [fn |-> fn, slug |-> operationSlug, tag |-> tagSlug, at |-> "await",
               via |-> "tag", awaiting |-> Null, queue |-> <<>>, combined |-> {},
               result |-> NullResult]
  IN  IF ids # <<>> THEN [call EXCEPT !.awaiting = Head(ids), !.queue = Tail(ids)]
      ELSE IF fn = "loadTagOperations" THEN [call EXCEPT !.at = "done"]
      ELSE LookupStep(call)

\* the call after `await loadChunk(id)` has given it the parsed object
AfterChunk(call, slugs) ==
  LET found == call.slug \in slugs
      operation == artifacts.chunkFiles[call.awaiting][call.slug]
  IN  IF call.fn = "loadTagOperations"
        THEN LET combined == call.combined \cup slugs
             IN  IF call.queue # <<>>
                   THEN [call EXCEPT !.combined = combined, !.awaiting = Head(call.queue),
                                     !.queue = Tail(call.queue)]
                   ELSE [call EXCEPT !.combined = combined, !.at = "done",
                                     !.result = [isNull |-> FALSE, slugs |-> combined]]
      ELSE IF found
        THEN [call EXCEPT !.at = "done",
                          !.result = [isNull |-> FALSE, operation |-> operation]]
      ELSE IF call.via = "lookup"
        THEN [call EXCEPT !.at = "done", !.result = NullResult]
      ELSE IF call.queue # <<>>
        THEN [call EXCEPT !.awaiting = Head(call.queue), !.queue = Tail(call.queue)]
      ELSE LookupStep(call)

\* the operations behind the generated module: one more than a chunk holds,
\* all tagged "Core", the first tagged "payments" as well
LoaderOperations ==
  [i \in 1..(OPERATIONS_PER_CHUNK + 1) |->
     IF i = 1
       THEN [ListedOperation(i) EXCEPT
               !.tags = @ \o <<[name |-> NamePayments, slug |-> NamePayments,
                                isFallback |-> FALSE]>>]
       ELSE ListedOperation(i)]

SlugLast == IdList \o <<"-">> \o IntToStr(OPERATIONS_PER_CHUNK + 1)
SlugNope == <<"n", "o", "p", "e">>
TagGhost == <<"g", "h", "o", "s", "t">>

\* the calls pages and the try-it client make
LoaderCalls ==
  ({"loadOperation"} \X {IdList, SlugLast, SlugNope}
                     \X {Null, NameCoreLower, NamePayments, TagGhost})
  \cup ({"loadTagOperations"} \X {Null} \X {NameCoreLower, NamePayments, TagGhost})

InitLoader ==
  /\ mode = "loader" /\ pc = "running"
  /\ artifacts = RuntimeModule(createRuntimeSpecArtifacts(LoaderOperations,
                                  ManyOperationsSpec(LoaderOperations, 1)))
  /\ \E server \in BOOLEAN :
       input = [ server        |-> server,
                 chunkCache    |-> EmptyMap,
                 chunkPromises |-> {},
                 objects       |-> <<>>,
                 reads         |-> [id \in DOMAIN artifacts.chunkFiles |-> 0] ]
  /\ output = <<>>
  /\ document = NoObject
  /\ tagSeen = EmptyMap /\ opSeen = EmptyMap /\ tagsByName = <<>> /\ heap = <<>>
  /\ spec = NoObject /\ entryOptions = NoObject /\ options = NoObject
  /\ custom = NoObject
  /\ IdleSlug

UnchangedByLoader ==
  UNCHANGED <<mode, seen, issued, pc, document, tagSeen, opSeen, tagsByName, heap,
              spec, entryOptions, options, custom, artifacts>>

\* the module state once `call` has reached its next await, if it has one
ModuleAfter(module, call) ==
  IF call.at = "await" THEN InvokeLoadChunk(module, call.awaiting) ELSE module

\* a page or the client calls loadOperation or loadTagOperations
Call(fn, operationSlug, tagSlug) ==
  /\ mode = "loader" /\ Len(output) < MaxCalls
  /\ LET call == StartCall(fn, operationSlug, tagSlug)
     IN  /\ output' = Append(output, call)
         /\ input' = ModuleAfter(input, call)
  /\ UnchangedByLoader

\* browser: the import of a chunk resolves (lines 437-441)
ChunkResolves(chunkId) ==
  /\ mode = "loader" /\ ~input.server /\ chunkId \in input.chunkPromises
  /\ input' = [input EXCEPT
       !.objects = Append(@, [id |-> chunkId,
                              slugs |-> DOMAIN artifacts.chunkFiles[chunkId]]),
       !.chunkCache = MergeMaps(@, [c \in {chunkId} |-> Len(input.objects) + 1]),
       !.chunkPromises = @ \ {chunkId}]
  /\ UNCHANGED output
  /\ UnchangedByLoader

\* the call c continues after its await; a server build hands it the object
\* parsed by its own read
Resume(c) ==
  /\ mode = "loader" /\ c \in DOMAIN output /\ output[c].at = "await"
  /\ LET chunkId == output[c].awaiting
         module == IF input.server
                     THEN [input EXCEPT !.objects =
                             Append(@, [id |-> chunkId,
                                        slugs |-> DOMAIN artifacts.chunkFiles[chunkId]])]
                     ELSE input
         object == IF input.server THEN Len(module.objects)
                   ELSE input.chunkCache[chunkId]
         call == AfterChunk(output[c], module.objects[object].slugs)
         evicted == IF call.fn = "loadOperation" /\ call.at = "done" /\ ~call.result.isNull
                      THEN evictOperationFromChunk(module, chunkId, object, call.slug)
                      ELSE module
     IN  /\ input.server \/ chunkId \in DOMAIN input.chunkCache
         /\ output' = [output EXCEPT ![c] = call]
         /\ input' = ModuleAfter(evicted, call)
  /\ UnchangedByLoader

NextLoader ==
  \/ \E args \in LoaderCalls : Call(args[1], args[2], args[3])
  \/ \E chunkId \in DOMAIN artifacts.chunkFiles : ChunkResolves(chunkId)
  \/ \E c \in 1..MaxCalls : Resume(c)

SpecLoader == InitLoader /\ [][NextLoader]_vars

HeldByAChunk(operationSlug) ==
  \E id \in DOMAIN artifacts.chunkFiles : operationSlug \in DOMAIN artifacts.chunkFiles[id]

ChunkReadAtMostOnce ==
  mode = "loader" => \A id \in DOMAIN input.reads : input.reads[id] <= 1

\* in the browser the import of a chunk id is started at most once, also by
\* calls made while the first import is still pending
ChunkImportedAtMostOnce ==
  (mode = "loader" /\ ~input.server) =>
    \A id \in DOMAIN input.reads : input.reads[id] <= 1

\* two calls for the same chunk, the second made before the import resolved
ChunkImportedWitness ==
  /\ mode = "loader" /\ ~input.server /\ Len(output) = 2
  /\ output[1].at = "await" /\ output[2].at = "await"
  /\ output[1].awaiting = output[2].awaiting
  /\ output[1].fn # output[2].fn
  /\ input.chunkPromises = {output[1].awaiting}
  /\ input.reads[output[1].awaiting] = 1

\* the slugs of the operations that carry the tag
TagOperationSlugs(tagSlug) ==
  {LoaderOperations[i].slug :
     i \in {j \in DOMAIN LoaderOperations :
              \E t \in DOMAIN LoaderOperations[j].tags :
                LoaderOperations[j].tags[t].slug = tagSlug}}

-----------------------------------------------------------------------------
(* Unresolvable and cyclic references                                      *)

\* the schema resolved carries a `$ref` that names no component schema
RefIsUnresolvable ==
  /\ mode = "schema" /\ pc = "resolved"
  /\ "ref" \in DOMAIN input
  /\ getSchemaFromRef(input.ref) = NoObject

(* C17 as stated: resolving a schema whose `$ref` names a component schema  *)
(* that does not exist yields undefined.                                   *)
MissingRefYieldsUndefined == RefIsUnresolvable => output = NoObject

(* C17: resolving a schema whose `$ref` names a component schema that does  *)
(* not exist yields an object, the schema's own keys resolved without the  *)
(* `$ref` (the empty object when `$ref` is its only key), never undefined. *)
MissingRefYieldsOwnKeys ==
  RefIsUnresolvable =>
    /\ isPlainObject(output)
    /\ "ref" \notin DOMAIN output
    /\ DOMAIN input = {"ref"} => DOMAIN output = {}
    /\ \A key \in DOMAIN input \ {"ref", "allOf"} : key \in DOMAIN output

\* a missing reference with a title next to it resolved to the title alone
MissingRefWitness ==
  /\ RefIsUnresolvable
  /\ DOMAIN input = {"ref", "title"}
  /\ DOMAIN output = {"title"}

(* resolveSchemaObject call by call: `output.stack` is the chain of calls   *)
(* in progress, the last frame the running one. A frame holds its          *)
(* workingSchema, its `seen` set, the statement it has reached and the     *)
(* reference whose target it resolves (Null for an entry, a property, an   *)
(* items or an additionalProperties value).                                *)

MaxFrames == 10

ResolveInputs ==
  << [ref |-> RefTree],
     [ref |-> RefListA],
     [ref |-> RefListB, title |-> "L"],
     [ref |-> RefNode],
     [ref |-> RefMissing],
     [properties |-> [a |-> [ref |-> RefTree], b |-> [ref |-> RefListA]]],
     [allOf |-> <<[ref |-> RefNode], NotAnObject, [ref |-> RefPet]>>],
     [items |-> [ref |-> RefNode]],
     [additionalProperties |-> [ref |-> RefTree], required |-> <<"a">>] >>

NewFrame(schema, seenRefs, followed) ==
  [ schema |-> schema, seenRefs |-> seenRefs, stage |-> "enter", pending |-> <<>>,
    keys |-> {}, key |-> "", followed |-> followed ]

InitResolve ==
  /\ mode = "resolve" /\ pc = "resolving"
  /\ \E i \in DOMAIN ResolveInputs : input = ResolveInputs[i]
  /\ output = [stack |-> <<NewFrame(input, {}, Null)>>, result |-> NoObject, cuts |-> 0]
  /\ IdleSlug /\ IdlePipelineData

UnchangedByResolve ==
  UNCHANGED <<mode, seen, issued, document, tagSeen, opSeen, tagsByName, heap,
              spec, entryOptions, options, custom, artifacts, input>>

Running == output.stack[Len(output.stack)]

\* the running call is at `stage`
At(stage) == mode = "resolve" /\ pc = "resolving" /\ Running.stage = stage

\* the running call goes on as `frame`
Continue(frame) ==
  /\ output' = [output EXCEPT !.stack[Len(output.stack)] = frame]
  /\ pc' = pc

\* the running call, left as `frame`, calls resolveSchemaObject(schema, new Set(seen))
CallResolve(frame, schema, followed) ==
  IF Len(output.stack) >= MaxFrames
    THEN pc' = "overflow" /\ output' = output
    ELSE /\ output' = [output EXCEPT !.stack =
                         Append([@ EXCEPT ![Len(@)] = frame],
                                NewFrame(schema, frame.seenRefs, followed))]
         /\ pc' = pc

\* lines 228-245
Enter ==
  /\ At("enter")
  /\ LET frame == Running
     IN  IF ~isPlainObject(frame.schema)
           THEN Continue([frame EXCEPT !.stage = "return"])
         ELSE IF "ref" \notin DOMAIN frame.schema
           THEN Continue([frame EXCEPT !.stage = "allOfStart"])
         ELSE IF ~AlreadySeen(frame.schema.ref, frame.seenRefs)
           THEN CallResolve([frame EXCEPT !.stage = "awaitRef",
                                          !.seenRefs = @ \cup {frame.schema.ref}],
                            getSchemaFromRef(frame.schema.ref), frame.schema.ref)
         ELSE /\ output' = [output EXCEPT
                   !.stack[Len(output.stack)] =
                      [frame EXCEPT !.schema = WithoutKey(@, "ref"), !.stage = "allOfStart"],
                   !.cuts = @ + 1]
              /\ pc' = pc
  /\ UnchangedByResolve

\* lines 247-255
AllOfNext ==
  /\ At("allOfStart") \/ At("allOf")
  /\ LET frame == Running
     IN  IF frame.stage = "allOfStart"
           THEN IF "allOf" \in DOMAIN frame.schema
                  THEN Continue([frame EXCEPT !.stage = "allOf", !.pending = frame.schema.allOf])
                  ELSE Continue([frame EXCEPT !.stage = "propertiesStart"])
         ELSE IF frame.pending = <<>>
           THEN Continue([frame EXCEPT !.schema = WithoutKey(@, "allOf"),
                                       !.stage = "propertiesStart"])
         ELSE CallResolve([frame EXCEPT !.stage = "awaitAllOf", !.pending = Tail(@)],
                          Head(frame.pending), Null)
  /\ UnchangedByResolve

\* lines 257-263
PropertiesNext ==
  /\ At("propertiesStart") \/ At("properties")
  /\ LET frame == Running
     IN  IF frame.stage = "propertiesStart"
           THEN IF "properties" \in DOMAIN frame.schema
                  THEN Continue([frame EXCEPT !.stage = "properties",
                                              !.keys = DOMAIN frame.schema.properties])
                  ELSE Continue([frame EXCEPT !.stage = "items"])
         ELSE IF frame.keys = {}
           THEN Continue([frame EXCEPT !.stage = "items"])
         ELSE LET key == CHOOSE k \in frame.keys : TRUE
              IN  CallResolve([frame EXCEPT !.stage = "awaitProperty", !.key = key,
                                            !.keys = @ \ {key}],
                              frame.schema.properties[key], Null)
  /\ UnchangedByResolve

\* lines 265-267
ItemsNext ==
  /\ At("items")
  /\ LET frame == Running
     IN  IF "items" \in DOMAIN frame.schema /\ isPlainObject(frame.schema.items)
           THEN CallResolve([frame EXCEPT !.stage = "awaitItems"], frame.schema.items, Null)
           ELSE Continue([frame EXCEPT !.stage = "additionalProperties"])
  /\ UnchangedByResolve

\* lines 269-274
AdditionalPropertiesNext ==
  /\ At("additionalProperties")
  /\ LET frame == Running
     IN  IF "additionalProperties" \in DOMAIN frame.schema
              /\ isPlainObject(frame.schema.additionalProperties)
           THEN CallResolve([frame EXCEPT !.stage = "awaitAdditional"],
                            frame.schema.additionalProperties, Null)
           ELSE Continue([frame EXCEPT !.stage = "infer"])
  /\ UnchangedByResolve

\* lines 276-281
Infer ==
  /\ At("infer")
  /\ Continue([Running EXCEPT !.schema = InferType(@), !.stage = "return"])
  /\ UnchangedByResolve

\* the caller `frame` once the call it waits for has returned `value`
Absorb(frame, value) ==
  IF frame.stage = "awaitRef"
    THEN [frame EXCEPT !.schema = mergeSchemaObjects(OrEmpty(value), WithoutKey(@, "ref")),
                       !.stage = "allOfStart"]
  ELSE IF frame.stage = "awaitAllOf"
    THEN [frame EXCEPT !.schema = IF isPlainObject(value)
                                    THEN mergeSchemaObjects(@, value) ELSE @,
                       !.stage = "allOf"]
  ELSE IF frame.stage = "awaitProperty"
    THEN [frame EXCEPT !.schema.properties[frame.key] = OrEmpty(value),
                       !.stage = "properties"]
  ELSE IF frame.stage = "awaitItems"
    THEN [frame EXCEPT !.schema.items = OrEmpty(value), !.stage = "additionalProperties"]
  ELSE [frame EXCEPT !.schema.additionalProperties = OrEmpty(value), !.stage = "infer"]

\* the running call returns to its caller, the outermost one to the utilities
Return ==
  /\ At("return")
  /\ LET depth == Len(output.stack)
         value == IF isPlainObject(Running.schema) THEN Running.schema ELSE NoObject
     IN  IF depth = 1
           THEN /\ output' = [output EXCEPT !.stack = <<>>, !.result = value]
                /\ pc' = "resolved"
           ELSE /\ output' = [output EXCEPT !.stack =
                     [SubSeq(@, 1, depth - 1) EXCEPT
                        ![depth - 1] = Absorb(output.stack[depth - 1], value)]]
                /\ pc' = pc
  /\ UnchangedByResolve

NextResolve ==
  \/ Enter
  \/ AllOfNext
  \/ PropertiesNext
  \/ ItemsNext
  \/ AdditionalPropertiesNext
  \/ Infer
  \/ Return

\* a call in progress runs on: JavaScript executes it to completion
SpecResolve == InitResolve /\ [][NextResolve]_vars /\ WF_vars(NextResolve)

\* the references followed by the calls in progress
FollowedRefs == [i \in DOMAIN output.stack |-> output.stack[i].followed]

(* C18: schema resolution terminates, also for self-referential and        *)
(* mutually recursive `$ref` chains through properties, items,             *)
(* additionalProperties or allOf, and within one chain of calls no         *)
(* reference is followed twice.                                            *)
ResolutionTerminates ==
  /\ <>(pc = "resolved")
  /\ [](\A i, j \in DOMAIN FollowedRefs :
          (i < j /\ FollowedRefs[i] # Null) => FollowedRefs[j] # FollowedRefs[i])

\* the mutually recursive ListA and ListB resolved, the second meeting of
\* ListA cut off
ResolutionTerminatesWitness ==
  /\ mode = "resolve" /\ pc = "resolved"
  /\ input = [ref |-> RefListA]
  /\ output.cuts > 0
  /\ isPlainObject(output.result)

-----------------------------------------------------------------------------
(* One regeneration attempt: regenerateArtifacts, src/unnamed/part_006      *)
(* lines 641-698, with the head of loadAndNormalizeSpec,                   *)
(* src/unnamed/part_005 lines 138-184. `input` is what the attempt meets:  *)
(* the source, whether it can be reached or read, the response status,     *)
(* whether the response took longer or is larger than the limits the       *)
(* caller wants enforced, and what the contents parse to. `output` is what *)
(* the attempt has done.                                                   *)

SourceUrl == <<"h","t","t","p","s",":","/","/","a","/","o",".","y","a","m","l">>
SourcePath == <<"/","p","/","o",".","y","a","m","l">>

SpecSources == {[type |-> "url", url |-> SourceUrl], [type |-> "file", path |-> SourcePath]}

\* sourceLabel, line 140
SourceLabel(specSource) == IF specSource.type = "url" THEN specSource.url ELSE specSource.path

\* what the text of a source parses to: a syntax error, a list, a mapping
Contents == {"invalid", "list", "mapping"}

ArtifactKinds == {"config", "chunks", "specModule", "pages"}

InitRegenerate ==
  /\ mode = "regenerate" /\ pc = "idle"
  /\ \E specSource \in SpecSources, reachable \in BOOLEAN, ok \in BOOLEAN,
        overTimeout \in BOOLEAN, overCeiling \in BOOLEAN, contents \in Contents :
       /\ specSource.type = "file" => (ok /\ ~overTimeout /\ ~overCeiling)
       /\ input = [ specSource  |-> specSource,
                    reachable   |-> reachable,
                    ok          |-> ok,
                    overTimeout |-> overTimeout,
                    overCeiling |-> overCeiling,
                    contents    |-> contents ]
  /\ output = [ written |-> {}, docsRemoved |-> FALSE, error |-> NoObject,
                logged |-> FALSE, artifactsReady |-> TRUE ]
  /\ IdleSlug /\ IdlePipelineData

UnchangedByRegenerate ==
  UNCHANGED <<mode, seen, issued, document, tagSeen, opSeen, tagsByName, heap,
              spec, entryOptions, options, custom, artifacts, input>>

\* the attempt goes on at `next`
Proceed(next) == pc' = next /\ UNCHANGED output

\* `throw new Error(...)` with a message that holds `label`
Throw(kind, label) ==
  /\ pc' = "thrown"
  /\ output' = [output EXCEPT !.error = [kind |-> kind, names |-> label]]

\* lines 642-645
resetGeneratedDocsDir ==
  /\ mode = "regenerate" /\ pc = "idle"
  /\ pc' = "load"
  /\ output' = [output EXCEPT !.artifactsReady = FALSE, !.docsRemoved = TRUE]
  /\ UnchangedByRegenerate

\* part_005 lines 143-158: fetch(specSource.url) is given no time limit and
\* response.text() no size limit
FetchDocument ==
  /\ mode = "regenerate" /\ pc = "load" /\ input.specSource.type = "url"
  /\ IF ~input.reachable \/ ~input.ok
       THEN Throw("fetch", input.specSource.url)
       ELSE Proceed("parse")
  /\ UnchangedByRegenerate

\* part_005 lines 159-168
ReadDocument ==
  /\ mode = "regenerate" /\ pc = "load" /\ input.specSource.type = "file"
  /\ IF ~input.reachable
       THEN Throw("read", input.specSource.path)
       ELSE Proceed("parse")
  /\ UnchangedByRegenerate

\* part_005 lines 170-178
ParseDocument ==
  /\ mode = "regenerate" /\ pc = "parse"
  /\ IF input.contents = "invalid"
       THEN Throw("parse", SourceLabel(input.specSource))
       ELSE Proceed("check")
  /\ UnchangedByRegenerate

\* part_005 lines 180-184
CheckDocument ==
  /\ mode = "regenerate" /\ pc = "check"
  /\ IF input.contents # "mapping"
       THEN Throw("shape", SourceLabel(input.specSource))
       ELSE Proceed("write")
  /\ UnchangedByRegenerate

\* lines 653-654 and 655-679: the config module, then the chunk files and
\* the spec module, then the pages; the writes do not fail here
WriteArtifact(kind) ==
  /\ mode = "regenerate" /\ pc = "write"
  /\ kind \notin output.written
  /\ kind = "chunks" => "config" \in output.written
  /\ kind = "specModule" => "chunks" \in output.written
  /\ kind = "pages" => "specModule" \in output.written
  /\ output' = [output EXCEPT !.written = @ \cup {kind}]
  /\ pc' = pc
  /\ UnchangedByRegenerate

\* lines 680-685
FinishRegenerate ==
  /\ mode = "regenerate" /\ pc = "write" /\ output.written = ArtifactKinds
  /\ pc' = "generated"
  /\ output' = [output EXCEPT !.artifactsReady = TRUE]
  /\ UnchangedByRegenerate

\* lines 687-691: the error is logged and thrown again
CatchFailure ==
  /\ mode = "regenerate" /\ pc = "thrown"
  /\ pc' = "rejected"
  /\ output' = [output EXCEPT !.logged = TRUE]
  /\ UnchangedByRegenerate

NextRegenerate ==
  \/ resetGeneratedDocsDir
  \/ FetchDocument
  \/ ReadDocument
  \/ ParseDocument
  \/ CheckDocument
  \/ \E kind \in ArtifactKinds : WriteArtifact(kind)
  \/ FinishRegenerate
  \/ CatchFailure

SpecRegenerate == InitRegenerate /\ [][NextRegenerate]_vars

\* the attempt is over
AttemptOver == mode = "regenerate" /\ pc \in {"generated", "rejected"}

\* fetching, reading or parsing cannot succeed within the limits
LoadMustFail ==
  \/ ~input.reachable
  \/ ~input.ok
  \/ input.overTimeout
  \/ input.overCeiling
  \/ input.contents # "mapping"

\* the attempt ended with an error naming the source and wrote nothing
AbortedCleanly ==
  /\ pc = "rejected"
  /\ isPlainObject(output.error)
  /\ output.error.names = SourceLabel(input.specSource)
  /\ output.written = {}

(* C19: when fetching, reading or parsing the document fails (source not   *)
(* reachable, non-2xx response, fetch over the timeout or the byte-size    *)
(* ceiling, invalid YAML/JSON, top level not an object) the attempt ends   *)
(* with an error that names the source and has written no config or spec   *)
(* module, chunk or page.                                                  *)
FailedLoadAborts == (AttemptOver /\ LoadMustFail) => AbortedCleanly

\* the failures the code detects end the attempt cleanly
DetectedFailureAborts ==
  (AttemptOver /\ (~input.reachable \/ ~input.ok \/ input.contents # "mapping"))
    => AbortedCleanly

-----------------------------------------------------------------------------
(* Malformed path items and operations: src/unnamed/part_005 lines         *)
(* 261-270. The same document is walked twice, once as it is and once with *)
(* its malformed entries left out; every other entry keeps its path and    *)
(* method.                                                                 *)

MaxEntries == 3

\* a path item with one method, and the two malformed shapes
PathItems ==
  << [operation |-> RawOperations[1]],
     [operation |-> RawOperations[2]],
     [operation |-> RawOperations[4]],
     [operation |-> NotAnObject],
     NotAnObject >>

\* the entry is a path item that is no mapping, or holds an operation that
\* is no mapping
IsMalformed(pathItem) ==
  \/ "notAnObject" \in DOMAIN pathItem
  \/ "notAnObject" \in DOMAIN pathItem.operation

PathItemLists(n) == UNION {[1..k -> DOMAIN PathItems] : k \in 0..n}

InitMalformed ==
  /\ mode = "malformed" /\ pc = "paths"
  /\ \E s \in DOMAIN DocSkeletons, items \in PathItemLists(MaxEntries) :
       input = MergeMaps(DocSkeletons[s],
                         [paths |-> [k \in DOMAIN items |-> PathItems[items[k]]]])
  /\ output = [ read |-> 0, asGiven |-> StartPass(input), cleaned |-> StartPass(input),
                result |-> NoObject, expected |-> NoObject ]
  /\ IdleSlug /\ IdlePipelineData

UnchangedByMalformed ==
  UNCHANGED <<mode, seen, issued, document, tagSeen, opSeen, tagsByName, heap,
              spec, entryOptions, options, custom, artifacts, input>>

\* lines 262-270 for the k-th path item
WalkPathItem(pass, pathItem, k, random) ==
  IF ~isPlainObject(pathItem) THEN pass
  ELSE WalkOperation(pass, pathItem.operation, k, random)

\* the next path item is walked; the walk of the cleaned document has no
\* such step for a malformed one
WalkEntry(random) ==
  /\ mode = "malformed" /\ pc = "paths" /\ output.read < Len(input.paths)
  /\ LET k == output.read + 1
         pathItem == input.paths[k]
     IN  \E asGiven \in {WalkPathItem(output.asGiven, pathItem, k, random)},
            cleaned \in {IF IsMalformed(pathItem) THEN output.cleaned
                         ELSE WalkPlainOperation(output.cleaned, pathItem.operation,
                                                 k, random)} :
           output' = [output EXCEPT !.read = k, !.asGiven = asGiven, !.cleaned = cleaned]
  /\ pc' = pc
  /\ UnchangedByMalformed

FinishWalk ==
  /\ mode = "malformed" /\ pc = "paths" /\ output.read = Len(input.paths)
  /\ output' = [output EXCEPT !.result = NormalizedSpecOf(output.asGiven, input),
                              !.expected = NormalizedSpecOf(output.cleaned, input)]
  /\ pc' = "normalized"
  /\ UnchangedByMalformed

NextMalformed ==
  \/ \E random \in RandomSuffixes : WalkEntry(random)
  \/ FinishWalk

SpecMalformed == InitMalformed /\ [][NextMalformed]_vars

(* C20: a path item or an operation that is not a mapping is skipped, and  *)
(* the operations, tags and statistics of the normalized spec are those of *)
(* the document without the malformed entries.                             *)
MalformedEntriesSkipped ==
  (mode = "malformed" /\ pc = "normalized") =>
    /\ output.asGiven.heap = output.cleaned.heap
    /\ output.result = output.expected
    /\ Len(output.asGiven.heap)
         = Cardinality({k \in DOMAIN input.paths : ~IsMalformed(input.paths[k])})

\* a malformed path item and a malformed operation before a well-formed one
MalformedEntriesWitness ==
  /\ mode = "malformed" /\ pc = "normalized"
  /\ Len(input.paths) = 3
  /\ input.paths[1] = NotAnObject
  /\ input.paths[2] = [operation |-> NotAnObject]
  /\ ~IsMalformed(input.paths[3])
  /\ Len(output.asGiven.heap) = 1
  /\ output.result.stats.operations = 1

-----------------------------------------------------------------------------
(* runWithLimit: src/unnamed/part_006 lines 184-205, as writeSpecModule     *)
(* calls it for the chunk files (line 318) and the schema-definition files *)
(* (line 352). The tasks all write one file and differ in nothing else, so *)
(* the state counts them: `queued` still in `queue`, `scheduled` with a    *)
(* promise in `running` whose task has not been called yet, `writing` with *)
(* fs.writeFile pending, `settling` written but not yet deleted from       *)
(* `running` by the `finally` callback.                                    *)

MaxFiles == 18

ChunkWriteLimit == 16
SchemaWriteLimit == 8

\* Math.max(1, Number(limit) || 1)
MaxRunning(limit) == IF limit >= 1 THEN limit ELSE 1

\* running.size
RunningSize(run) == run.scheduled + run.writing + run.settling

\* mutant: the inner loop starts a task whatever is running
HasRoomAlways(run, max) == TRUE

\* running.size < max
HasRoom(run, max) == RunningSize(run) < max

InitWrites ==
  /\ mode = "writes" /\ pc = "fill"
  /\ \E limit \in {ChunkWriteLimit, SchemaWriteLimit}, files \in 0..MaxFiles :
       input = [limit |-> limit, files |-> files]
  /\ output = [ queued |-> input.files, scheduled |-> 0, writing |-> 0, settling |-> 0,
                written |-> 0, settled |-> FALSE ]
  /\ IdleSlug /\ IdlePipelineData

UnchangedByWrites ==
  UNCHANGED <<mode, seen, issued, document, tagSeen, opSeen, tagsByName, heap,
              spec, entryOptions, options, custom, artifacts, input>>

\* lines 192-198: the inner loop takes the next task off the queue
StartTask ==
  /\ mode = "writes" /\ pc = "fill"
  /\ output.queued > 0 /\ HasRoom(output, MaxRunning(input.limit))
  /\ output' = [output EXCEPT !.queued = @ - 1, !.scheduled = @ + 1]
  /\ pc' = pc
  /\ UnchangedByWrites

\* lines 190-202: the inner loop is over; the function awaits the race of
\* the running promises, or returns when nothing is queued or running
AwaitRace ==
  /\ mode = "writes" /\ pc = "fill"
  /\ ~(output.queued > 0 /\ HasRoom(output, MaxRunning(input.limit)))
  /\ IF RunningSize(output) > 0
       THEN pc' = "await" /\ output' = [output EXCEPT !.settled = FALSE]
       ELSE pc' = "done" /\ output' = output
  /\ UnchangedByWrites

\* line 195: `.then(() => task())` runs once the function has yielded
CallTask ==
  /\ mode = "writes" /\ pc = "await" /\ output.scheduled > 0
  /\ output' = [output EXCEPT !.scheduled = @ - 1, !.writing = @ + 1]
  /\ pc' = pc
  /\ UnchangedByWrites

\* fs.writeFile of one task completes
WriteCompletes ==
  /\ mode = "writes" /\ pc = "await" /\ output.writing > 0
  /\ output' = [output EXCEPT !.writing = @ - 1, !.settling = @ + 1, !.written = @ + 1]
  /\ pc' = pc
  /\ UnchangedByWrites

\* line 196: `.finally(() => running.delete(promise))`
DeleteRunning ==
  /\ mode = "writes" /\ pc = "await" /\ output.settling > 0
  /\ output' = [output EXCEPT !.settling = @ - 1, !.settled = TRUE]
  /\ pc' = pc
  /\ UnchangedByWrites

\* line 201: the race has settled and the outer loop goes round
ResumeLoop ==
  /\ mode = "writes" /\ pc = "await" /\ output.settled
  /\ pc' = "fill"
  /\ UNCHANGED output
  /\ UnchangedByWrites

NextWrites ==
  \/ StartTask
  \/ AwaitRace
  \/ CallTask
  \/ WriteCompletes
  \/ DeleteRunning
  \/ ResumeLoop

SpecWrites == InitWrites /\ [][NextWrites]_vars

(* C21: the number of file writes in flight never exceeds the limit, 16    *)
(* for chunk files and 8 for schema definitions, however many files there  *)
(* are.                                                                    *)
WritesInFlightBounded ==
  mode = "writes" =>
    /\ output.writing <= input.limit
    /\ RunningSize(output) <= input.limit

\* more chunk files than the limit: 16 writes in flight, the others queued
WritesInFlightWitness ==
  /\ mode = "writes"
  /\ input.limit = ChunkWriteLimit /\ input.files > ChunkWriteLimit
  /\ output.writing = ChunkWriteLimit
  /\ output.queued > 0

-----------------------------------------------------------------------------
(* One integration instance under `astro dev`: the hooks of                *)
(* src/unnamed/part_006 lines 700-803 around regenerateArtifacts (lines    *)
(* 641-698). `output` holds the instance: the closure variables            *)
(* artifactsReady and regeneratePromise, the pipelines in flight (the      *)
(* async function bodies started at line 644, each with the statement it   *)
(* has reached and the version of the spec file it has read), the hook in  *)
(* progress, and the spec file as the watcher sees it.                     *)

MaxChanges == 3

NewPipeline == [at |-> "reset", loaded |-> -1]

InitDev ==
  /\ mode = "dev" /\ pc = "boot"
  /\ input = NoObject
  /\ output = [ fileVersion       |-> 0,
                fileOk            |-> TRUE,
                watching          |-> FALSE,
                watchedVersion    |-> 0,
                artifactsReady    |-> FALSE,
                regeneratePromise |-> FALSE,
                active            |-> <<>>,
                settledVersion    |-> -1,
                lastOutcome       |-> "none",
                calls             |-> 0,
                started           |-> 0 ]
  /\ IdleSlug /\ IdlePipelineData

UnchangedByDev ==
  UNCHANGED <<mode, seen, issued, document, tagSeen, opSeen, tagsByName, heap,
              spec, entryOptions, options, custom, artifacts, input>>

\* mutant: a regeneration in flight is not noticed
HasRegeneratePromiseNever(dev) == FALSE

\* line 642: `if (regeneratePromise)`
HasRegeneratePromise(dev) == dev.regeneratePromise

\* mutant: the flag is left as it was
ReadyAtStartKept(ready) == ready

\* line 643: `artifactsReady = false`
ReadyAtStart(ready) == FALSE

\* regenerateArtifacts(logger), lines 642-644 and 697: the call returns the
\* promise in flight or starts the pipeline
regenerateArtifacts(dev) ==
  IF HasRegeneratePromise(dev)
    THEN [dev EXCEPT !.calls = @ + 1]
    ELSE [dev EXCEPT !.calls = @ + 1,
                     !.artifactsReady = ReadyAtStart(@),
                     !.regeneratePromise = TRUE,
                     !.active = Append(@, NewPipeline),
                     !.started = @ + 1]

\* astro:config:setup, line 743: `await regenerateArtifacts(logger)`
ConfigSetup ==
  /\ mode = "dev" /\ pc = "boot"
  /\ output' = regenerateArtifacts(output)
  /\ pc' = "configSetup"
  /\ UnchangedByDev

\* the awaited promise has settled: the hook goes on, or fails with it
ConfigSetupDone ==
  /\ mode = "dev" /\ pc = "configSetup" /\ ~output.regeneratePromise
  /\ pc' = IF output.lastOutcome = "failure" THEN "aborted" ELSE "serverSetup"
  /\ UNCHANGED output
  /\ UnchangedByDev

\* astro:server:setup, lines 772-791: the watcher handler is registered
ServerSetup ==
  /\ mode = "dev" /\ pc = "serverSetup"
  /\ output' = [output EXCEPT !.watching = TRUE]
  /\ pc' = "serverStart"
  /\ UnchangedByDev

\* astro:server:start, lines 792-796
ServerStart ==
  /\ mode = "dev" /\ pc = "serverStart"
  /\ IF ~output.artifactsReady
       THEN output' = regenerateArtifacts(output) /\ pc' = "serverStartAwait"
       ELSE output' = output /\ pc' = "serving"
  /\ UnchangedByDev

ServerStartDone ==
  /\ mode = "dev" /\ pc = "serverStartAwait" /\ ~output.regeneratePromise
  /\ pc' = "serving"
  /\ UNCHANGED output
  /\ UnchangedByDev

\* the spec file is saved, well-formed or not; once the handler is
\* registered the watcher calls it (lines 780-787)
ChangeFile(ok) ==
  /\ mode = "dev" /\ pc # "aborted" /\ output.fileVersion < MaxChanges
  /\ LET saved == [output EXCEPT !.fileVersion = @ + 1, !.fileOk = ok]
     IN  output' = IF output.watching
                     THEN regenerateArtifacts([saved EXCEPT !.watchedVersion = saved.fileVersion])
                     ELSE saved
  /\ pc' = pc
  /\ UnchangedByDev

\* the pipeline i goes on as `pipeline`
PipelineStep(i, pipeline) ==
  /\ output' = [output EXCEPT !.active[i] = pipeline]
  /\ pc' = pc
  /\ UnchangedByDev

\* line 645
PipelineReset(i) ==
  /\ mode = "dev" /\ i \in DOMAIN output.active /\ output.active[i].at = "reset"
  /\ PipelineStep(i, [output.active[i] EXCEPT !.at = "load"])

\* line 646: the file is read as it is now
PipelineLoad(i) ==
  /\ mode = "dev" /\ i \in DOMAIN output.active /\ output.active[i].at = "load"
  /\ PipelineStep(i, [output.active[i] EXCEPT
                        !.loaded = output.fileVersion,
                        !.at = IF output.fileOk THEN "write" ELSE "thrown"])

\* lines 647-684: modules, chunks, schema definitions and pages are
\* written, or a write fails
PipelineWrite(i, ok) ==
  /\ mode = "dev" /\ i \in DOMAIN output.active /\ output.active[i].at = "write"
  /\ PipelineStep(i, [output.active[i] EXCEPT !.at = IF ok THEN "written" ELSE "thrown"])

\* the sequence without its i-th element
RemoveAt(s, i) == [k \in 1..(Len(s) - 1) |-> IF k < i THEN s[k] ELSE s[k + 1]]

\* lines 685-695: the pipeline ends and the promise settles; the callbacks
\* of `.catch` and `.finally` run before any hook or watcher callback
PipelineSettle(i) ==
  /\ mode = "dev" /\ i \in DOMAIN output.active
  /\ output.active[i].at \in {"written", "thrown"}
  /\ output' = [output EXCEPT
       !.artifactsReady = IF output.active[i].at = "written" THEN TRUE ELSE @,
       !.regeneratePromise = FALSE,
       !.active = RemoveAt(@, i),
       !.settledVersion = output.active[i].loaded,
       !.lastOutcome = IF output.active[i].at = "written" THEN "success" ELSE "failure"]
  /\ pc' = pc
  /\ UnchangedByDev

\* what Node and Astro run whenever it is enabled
DevProgress ==
  \/ ConfigSetup
  \/ ConfigSetupDone
  \/ ServerSetup
  \/ ServerStart
  \/ ServerStartDone
  \/ \E i \in 1..(MaxChanges + 2) : PipelineReset(i)
  \/ \E i \in 1..(MaxChanges + 2) : PipelineLoad(i)
  \/ \E i \in 1..(MaxChanges + 2), ok \in BOOLEAN : PipelineWrite(i, ok)
  \/ \E i \in 1..(MaxChanges + 2) : PipelineSettle(i)

NextDev ==
  \/ DevProgress
  \/ \E ok \in BOOLEAN : ChangeFile(ok)

SpecDev == InitDev /\ [][NextDev]_vars /\ WF_vars(DevProgress)

(* C22: after every change of the watched spec file a regeneration that    *)
(* loads the file as of that change or later eventually settles, also when *)
(* the change arrives while an earlier regeneration is in flight.          *)
ChangeIsRegenerated ==
  \A v \in 1..MaxChanges :
    (mode = "dev" /\ output.watchedVersion = v) ~> (output.settledVersion >= v)

\* a change that finds no pipeline past its read of the file is regenerated
ChangeBeforeLoadIsRegenerated ==
  \A v \in 1..MaxChanges :
    (/\ mode = "dev" /\ output.watchedVersion = v
     /\ \E i \in DOMAIN output.active : output.active[i].at \in {"reset", "load"})
      ~> (output.settledVersion >= v)

(* C26: at most one regeneration pipeline is in flight per instance; a     *)
(* call of regenerateArtifacts made while one is in flight starts nothing  *)
(* and gets the promise in flight; once that promise has settled, with     *)
(* success or failure, the next call starts a new pipeline.                *)
OnePipelineInFlight ==
  /\ [](mode = "dev" =>
          /\ Len(output.active) <= 1
          /\ output.regeneratePromise <=> (output.active # <<>>))
  /\ [][mode = "dev" =>
          /\ output'.calls = output.calls + 1 =>
               IF output.regeneratePromise
                 THEN /\ output'.started = output.started
                      /\ output'.active = output.active
                 ELSE /\ output'.started = output.started + 1
                      /\ output'.active = <<NewPipeline>>
          /\ Len(output'.active) < Len(output.active) =>
               ~output'.regeneratePromise]_vars

\* a call has joined a pipeline in flight, and a pipeline has been started
\* after a failed one
OnePipelineWitness ==
  /\ mode = "dev"
  /\ output.calls > output.started
  /\ output.started >= 2
  /\ output.lastOutcome = "failure"
  /\ output.active # <<>>

(* C28: artifactsReady is true only when the most recent regeneration      *)
(* wrote everything and none is in flight; it is false from the start of a *)
(* regeneration until its success, and stays false after a failed one, so  *)
(* that astro:server:start regenerates again.                              *)
ArtifactsReadyMeansWritten ==
  /\ [](mode = "dev" =>
          /\ output.artifactsReady =>
               output.active = <<>> /\ output.lastOutcome = "success"
          /\ output.active = <<>> /\ output.lastOutcome = "success" =>
               output.artifactsReady
          /\ pc = "serverStart" /\ ~output.artifactsReady =>
               ENABLED ServerStart)
  /\ [][mode = "dev" /\ pc = "serverStart" /\ ~output.artifactsReady =>
          \/ pc' = "serverStart"
          \/ pc' = "serverStartAwait" /\ output'.calls = output.calls + 1]_vars

\* a regeneration has succeeded, a later one has failed and left the flag
\* false, and astro:server:start has started one more
ArtifactsReadyWitness ==
  /\ mode = "dev" /\ pc = "serverStartAwait"
  /\ output.started >= 3
  /\ output.lastOutcome = "failure"
  /\ ~output.artifactsReady
  /\ output.active # <<>>

-----------------------------------------------------------------------------
(* The slugs of arbitrary names: the tag slug factory behind registerTag   *)
(* (src/unnamed/part_005 lines 200-229), the operation slug factory (201,  *)
(* 271-272) and normalizeSchemas (777-787), fed names one at a time.       *)

MaxNames == 3
MaxNameLen == 2
NameAlphabet == {"a", "B", "-", " "}

ArbitraryNames == StringsUpTo(NameAlphabet, MaxNameLen)

InitNames ==
  /\ mode = "names" /\ input = NoObject
  /\ output = [ reg        |-> [seen |-> EmptyMap, tags |-> <<>>],
                opSeen     |-> EmptyMap,
                operations |-> <<>>,
                schemaKeys |-> <<>>,
                schemas    |-> <<>> ]
  /\ IdleSlug /\ IdlePipeline

UnchangedByNames ==
  UNCHANGED <<mode, seen, issued, pc, document, tagSeen, opSeen, tagsByName, heap,
              spec, entryOptions, options, custom, artifacts, input>>

\* the names given so far
NamesGiven ==
  Len(output.reg.tags) + Len(output.operations) + Len(output.schemaKeys)

\* registerTag(name) for a declared or referenced tag name
NameTag(name) ==
  /\ mode = "names" /\ NamesGiven < MaxNames
  /\ output' = [output EXCEPT !.reg = registerTag(@, name, EmptyMap)]
  /\ UnchangedByNames

\* lines 271-272 for an operation whose operationId is `name`
NameOperation(name, random) ==
  /\ mode = "names" /\ NamesGiven < MaxNames
  /\ \E operationId \in {extractOperationId([operationId |-> name], MethodGet,
                                            PathUsers, random)} :
       output' = [output EXCEPT
         !.operations = Append(@, [operationId |-> operationId,
                                   slug |-> FactorySlug(output.opSeen, operationId,
                                              OperationDefaultSlug, OperationDefaultSlug)]),
         !.opSeen = FactorySeen(@, operationId, OperationDefaultSlug,
                                OperationDefaultSlug)]
  /\ UnchangedByNames

\* components.schemas has one more key: the list is normalized anew
NameSchema(name) ==
  /\ mode = "names" /\ NamesGiven < MaxNames
  /\ \A k \in DOMAIN output.schemaKeys : output.schemaKeys[k] # name
  /\ output' = [output EXCEPT
       !.schemaKeys = Append(@, name),
       !.schemas = normalizeSchemas(Append(output.schemaKeys, name))]
  /\ UnchangedByNames

NextNames ==
  \/ \E name \in ArbitraryNames : NameTag(name)
  \/ \E name \in ArbitraryNames : NameOperation(name, <<"k">>)
  \/ \E name \in ArbitraryNames : NameSchema(name)

SpecNames == InitNames /\ [][NextNames]_vars

\* non-empty, of lowercase letters, digits and hyphens, with no hyphen at
\* either end
IsUrlSafeSlug(slug) ==
  /\ slug # <<>>
  /\ \A i \in DOMAIN slug : IsSlugChar(slug[i]) \/ slug[i] = "-"
  /\ slug[1] # "-" /\ slug[Len(slug)] # "-"

(* C30: every tag slug, operation slug and schema slug is non-empty, holds *)
(* only lowercase letters, digits and hyphens, and neither starts nor ends *)
(* with a hyphen, whatever the names are.                                  *)
SlugsAreUrlSafe ==
  mode = "names" =>
    /\ \A i \in DOMAIN output.reg.tags : IsUrlSafeSlug(output.reg.tags[i].slug)
    /\ \A i \in DOMAIN output.operations : IsUrlSafeSlug(output.operations[i].slug)
    /\ \A i \in DOMAIN output.schemas : IsUrlSafeSlug(output.schemas[i].slug)

\* the slugs of operations, and of tags and schemas whose name has a letter
\* or a digit, have that shape
NamedSlugsAreUrlSafe ==
  mode = "names" =>
    /\ \A i \in DOMAIN output.operations : IsUrlSafeSlug(output.operations[i].slug)
    /\ \A i \in DOMAIN output.reg.tags :
         (\E k \in DOMAIN output.reg.tags[i].name :
            IsSlugChar(ToLowerCase(output.reg.tags[i].name)[k]))
           => IsUrlSafeSlug(output.reg.tags[i].slug)
    /\ \A i \in DOMAIN output.schemas :
         (\E k \in DOMAIN output.schemas[i].name :
            IsSlugChar(ToLowerCase(output.schemas[i].name)[k]))
           => IsUrlSafeSlug(output.schemas[i].slug)

-----------------------------------------------------------------------------
(* Several specs in one site: src/unnamed/part_006 lines 21-63, 129-135,   *)
(* 207-258, 272-278 and 835-846. `input` holds the entries passed to       *)
(* starlightOpenApiNavigator, `output` the resolved instances with the     *)
(* statement their regeneration has reached and the page files on disk.    *)

MaxInstances == 2
MaxRegenerations == 2

\* sanitizeInstanceId, lines 21-29: the two replacements together turn every
\* run of characters other than a-z and 0-9 into one hyphen
sanitizeInstanceId(value) ==
  LET normalized == StripHyphens(ReplaceNonSlugRuns(ToLowerCase(Trim(value))))
  IN  IF normalized # <<>> THEN normalized ELSE <<"s", "p", "e", "c">>

\* typeof value === 'string' && value.trim()
IsFilled(value) == value # Null /\ Trim(value) # <<>>

\* the candidate id of the entry at `index` (from 0) of n entries, lines 36-48
CandidateId(entry, index, n) ==
  IF IsFilled(entry.instanceId) THEN entry.instanceId
  ELSE IF IsFilled(entry.id) THEN entry.id
  ELSE IF IsFilled(entry.name) THEN entry.name
  ELSE IF n = 1 THEN <<"d", "e", "f", "a", "u", "l", "t">>
  ELSE <<"s", "p", "e", "c", "-">> \o IntToStr(index + 1)

\* lines 50-55: the first of sanitize(candidate), sanitize(candidate-2), ...
\* that no earlier entry has
RECURSIVE FreeInstanceId(_, _, _, _)
FreeInstanceId(candidate, instanceId, taken, suffix) ==
  IF instanceId \notin taken THEN instanceId
  ELSE FreeInstanceId(candidate,
                      sanitizeInstanceId(candidate \o <<"-">> \o IntToStr(suffix)),
                      taken, suffix + 1)

\* normalizeIntegrationEntries(rawOptions) for an array of entries: the
\* instance ids in entry order
RECURSIVE InstanceIds(_, _)
InstanceIds(entries, done) ==
  IF Len(done) = Len(entries) THEN done
  ELSE LET index == Len(done)
           candidate == CandidateId(entries[index + 1], index, Len(entries))
       IN  InstanceIds(entries,
             Append(done, FreeInstanceId(candidate, sanitizeInstanceId(candidate),
                                         {done[k] : k \in DOMAIN done}, 2)))

normalizeIntegrationEntries(entries) == InstanceIds(entries, <<>>)

\* String.prototype.split('/')
RECURSIVE SplitSlash(_, _)
SplitSlash(s, segment) ==
  IF s = <<>> THEN <<segment>>
  ELSE IF Head(s) = "/" THEN <<segment>> \o SplitSlash(Tail(s), <<>>)
  ELSE SplitSlash(Tail(s), Append(segment, Head(s)))

\* the non-empty members of a list of strings
RECURSIVE NonEmpty(_)
NonEmpty(segments) ==
  IF segments = <<>> THEN <<>>
  ELSE (IF Head(segments) # <<>> THEN <<Head(segments)>> ELSE <<>>)
         \o NonEmpty(Tail(segments))

\* Array.prototype.join('/')
RECURSIVE JoinSlash(_)
JoinSlash(segments) ==
  IF segments = <<>> THEN <<>>
  ELSE IF Len(segments) = 1 THEN Head(segments)
  ELSE Head(segments) \o <<"/">> \o JoinSlash(Tail(segments))

\* normalizeBaseSlug(input) for a string, lines 835-842
normalizeBaseSlug(slugInput) ==
  LET split == SplitSlash(slugInput, <<>>)
      segments == NonEmpty([k \in DOMAIN split |-> Trim(split[k])])
  IN  IF segments # <<>> THEN JoinSlash(segments) ELSE <<"a", "p", "i">>

\* slugToSegments(slug), lines 844-846
slugToSegments(slug) == NonEmpty(SplitSlash(slug, <<>>))

DirSrc == <<"s", "r", "c">>
DirPages == <<"p", "a", "g", "e", "s">>
\* legacyDocsDir, line 250, from the working directory
LegacyDocsDir ==
  <<DirSrc, <<"c","o","n","t","e","n","t">>, <<"d","o","c","s">>,
    <<"a","p","i","-","p","a","g","e","s">>>>

\* resolveOptions(options, { instanceId }), lines 208-213 and 246-252: the
\* base slug and the directory of the generated pages; outputDir is not set
ResolveInstance(entry, instanceId) ==
  LET id == sanitizeInstanceId(instanceId)
      baseSlug == normalizeBaseSlug(IF entry.baseSlug # Null /\ Trim(entry.baseSlug) # <<>>
                                      THEN entry.baseSlug ELSE id)
  IN  [ instanceId       |-> id,
        baseSlug         |-> baseSlug,
        generatedDocsDir |-> <<DirSrc, DirPages>> \o slugToSegments(baseSlug),
        at               |-> "idle",
        runs             |-> 0 ]

IntegrationEntries ==
  [ instanceId : {Null, <<"a">>, <<"A", " ">>},
    id         : {Null, <<"a">>},
    name       : {Null, <<"b">>},
    baseSlug   : {Null, <<"a", "p", "i">>, <<"a", "p", "i", "/", "a">>} ]

InitInstances ==
  /\ mode = "instances"
  /\ input \in [1..MaxInstances -> IntegrationEntries]
  /\ \E ids \in {normalizeIntegrationEntries(input)} :
       output = [ instances |-> [i \in DOMAIN input |-> ResolveInstance(input[i], ids[i])],
                  files     |-> {} ]
  /\ IdleSlug /\ IdlePipeline

UnchangedByInstances ==
  UNCHANGED <<mode, seen, issued, pc, document, tagSeen, opSeen, tagsByName, heap,
              spec, entryOptions, options, custom, artifacts, input>>

\* the path lies in the directory or is the directory
IsUnder(path, dir) ==
  Len(path) >= Len(dir) /\ \A k \in DOMAIN dir : path[k] = dir[k]

\* fs.rm(dir, { recursive: true, force: true })
RemoveTree(files, dir) == {file \in files : ~IsUnder(file.path, dir)}

\* the overview page of an instance
PageOf(i) ==
  [owner |-> i, path |-> Append(output.instances[i].generatedDocsDir, <<"i","n","d","e","x">>)]

\* regenerateArtifacts of instance i up to the end of resetGeneratedDocsDir
\* (lines 272-278)
ResetInstance(i) ==
  /\ mode = "instances" /\ i \in DOMAIN output.instances
  /\ output.instances[i].at \in {"idle", "written"}
  /\ output.instances[i].runs < MaxRegenerations
  /\ output' = [output EXCEPT
       !.instances[i].at = "reset",
       !.files = RemoveTree(RemoveTree(@, LegacyDocsDir),
                            output.instances[i].generatedDocsDir)]
  /\ UnchangedByInstances

\* ... and its pages written into generatedDocsDir (lines 655-679); a file
\* at the same path is replaced
WriteInstancePages(i) ==
  /\ mode = "instances" /\ i \in DOMAIN output.instances
  /\ output.instances[i].at = "reset"
  /\ output' = [output EXCEPT
       !.instances[i].at = "written",
       !.instances[i].runs = @ + 1,
       !.files = {file \in @ : file.path # PageOf(i).path} \cup {PageOf(i)}]
  /\ UnchangedByInstances

NextInstances ==
  \/ \E i \in 1..MaxInstances : ResetInstance(i)
  \/ \E i \in 1..MaxInstances : WriteInstancePages(i)

SpecInstances == InitInstances /\ [][NextInstances]_vars

\* no two instances have the same id
InstanceIdsDistinct ==
  mode = "instances" =>
    \A i, j \in DOMAIN output.instances :
      i # j => output.instances[i].instanceId # output.instances[j].instanceId

(* C23: with several specs every instance has an instanceId and a          *)
(* generated-pages directory of its own, so the pages an instance has      *)
(* written stay on disk while the other instances regenerate.              *)
InstancesKeepTheirPages ==
  /\ InstanceIdsDistinct
  /\ mode = "instances" =>
       \A i \in DOMAIN output.instances :
         /\ \A j \in DOMAIN output.instances :
              i # j => ~IsUnder(output.instances[j].generatedDocsDir,
                                output.instances[i].generatedDocsDir)
         /\ output.instances[i].at = "written" => PageOf(i) \in output.files

\* when no entry sets baseSlug the directories are apart and every written
\* instance keeps its pages
DefaultBaseSlugKeepsPages ==
  (mode = "instances" /\ \A i \in DOMAIN input : input[i].baseSlug = Null) =>
    InstancesKeepTheirPages

-----------------------------------------------------------------------------
(* The dev proxy table: src/unnamed/part_006 lines 1366-1394, 1659-1708.   *)
(* A server url is held as what `new URL(url)` makes of it (protocol, host *)
(* and pathname), NotAnObject when it is no string or does not parse.      *)
(* `output` holds the urls enqueued so far, the entries of the table and   *)
(* the Vite proxy object built from it.                                    *)

MaxServers == 3

ProtocolHttp == <<"h", "t", "t", "p", ":">>
ProtocolHttps == <<"h", "t", "t", "p", "s", ":">>

ServerUrls ==
  {NotAnObject} \cup
  [ protocol : {ProtocolHttp, ProtocolHttps},
    host     : {<<"a", ".", "b">>, <<"a", "-", "b">>},
    pathname : {<<"/">>, <<"/", "v", "1">>, <<"/", "v", "1", "/">>, <<"/", "v", ".", "1">>} ]

\* parseServerUrl(url), lines 1659-1678
parseServerUrl(url) ==
  IF ~isPlainObject(url) THEN NoObject
  ELSE LET origin == url.protocol \o <<"/", "/">> \o url.host
           rawPath == url.pathname
           cleanPath == IF rawPath = <<"/">> THEN <<>> ELSE StripTrailing(rawPath, "/")
       IN  [ origin        |-> origin,
             pathname      |-> IF cleanPath # <<>> THEN cleanPath ELSE <<"/">>,
             normalizedUrl |-> origin \o cleanPath,
             host          |-> url.host,
             pathSegments  |-> NonEmpty(SplitSlash(rawPath, <<>>)) ]

\* .replace(/[^a-zA-Z0-9]/g, '-')
ReplaceNonAlphanumerics(s) ==
  [k \in DOMAIN s |-> IF IsSlugChar(ToLowerChar(s[k])) THEN s[k] ELSE "-"]

\* buildContextPath(parsed, index), lines 1680-1685
buildContextPath(parsed, index) ==
  LET hostSegment == ReplaceNonAlphanumerics(parsed.host)
      pathSegments == [k \in DOMAIN parsed.pathSegments |->
                         ReplaceNonAlphanumerics(parsed.pathSegments[k])]
      segments == <<<<"_", "_", "o", "p", "e", "n", "a", "p", "i">>,
                    IF hostSegment # <<>> THEN hostSegment
                    ELSE <<"o", "r", "i", "g", "i", "n", "-">> \o IntToStr(index)>>
                  \o pathSegments
  IN  <<"/">> \o JoinSlash(NonEmpty(segments))

\* the normalized urls of the table's entries
SeenUrls(entries) == {entries[k].normalizedUrl : k \in DOMAIN entries}

\* `enqueue(url)` of buildDevProxyTable, lines 1370-1386
enqueue(entries, url) ==
  LET parsed == parseServerUrl(url)
  IN  IF ~isPlainObject(parsed) THEN entries
      ELSE IF parsed.normalizedUrl \in SeenUrls(entries) THEN entries
      ELSE Append(entries,
             [ id            |-> Len(entries),
               normalizedUrl |-> parsed.normalizedUrl,
               target        |-> parsed.origin,
               contextPath   |-> buildContextPath(parsed, Len(entries)),
               rewritePath   |-> parsed.pathname ])

\* buildViteProxyConfig(table), lines 1687-1708: the rule of each context
\* path, a later entry replacing an earlier one with the same path
RECURSIVE buildViteProxyConfig(_, _)
buildViteProxyConfig(table, proxy) ==
  IF table = <<>> THEN proxy
  ELSE buildViteProxyConfig(Tail(table),
         [key \in DOMAIN proxy \cup {Head(table).contextPath} |->
            IF key = Head(table).contextPath
              THEN [ target      |-> Head(table).target,
                     rewriteBase |-> IF Head(table).rewritePath # <<"/">>
                                       THEN Head(table).rewritePath ELSE <<>> ]
              ELSE proxy[key]])

InitProxy ==
  /\ mode = "proxy" /\ pc = "servers"
  /\ input = NoObject
  /\ output = [enqueued |-> <<>>, entries |-> <<>>, proxy |-> EmptyMap]
  /\ IdleSlug /\ IdlePipelineData

UnchangedByProxy ==
  UNCHANGED <<mode, seen, issued, document, tagSeen, opSeen, tagsByName, heap,
              spec, entryOptions, options, custom, artifacts, input>>

\* lines 1388-1391: the next server of the document or of an operation
EnqueueServer(url) ==
  /\ mode = "proxy" /\ pc = "servers" /\ Len(output.enqueued) < MaxServers
  /\ output' = [output EXCEPT !.enqueued = Append(@, url),
                              !.entries = enqueue(@, url)]
  /\ pc' = pc
  /\ UnchangedByProxy

\* the table is returned and astro:config:setup builds the proxy from it
ConfigureProxy ==
  /\ mode = "proxy" /\ pc = "servers"
  /\ output' = [output EXCEPT !.proxy = buildViteProxyConfig(output.entries, EmptyMap)]
  /\ pc' = "configured"
  /\ UnchangedByProxy

NextProxy ==
  \/ \E url \in ServerUrls : EnqueueServer(url)
  \/ ConfigureProxy

SpecProxy == InitProxy /\ [][NextProxy]_vars

\* the normalized urls of the servers enqueued so far
EnqueuedUrls ==
  {parseServerUrl(output.enqueued[k]).normalizedUrl :
     k \in {j \in DOMAIN output.enqueued : isPlainObject(output.enqueued[j])}}

\* the table has exactly one entry for each distinct normalized server url
OneEntryPerServerUrl ==
  mode = "proxy" =>
    /\ SeenUrls(output.entries) = EnqueuedUrls
    /\ Len(output.entries) = Cardinality(EnqueuedUrls)

(* C24: the dev proxy table has exactly one entry for each distinct        *)
(* normalized server url, no two entries share a context path, and so the  *)
(* proxy rule of every entry is its own.                                   *)
ProxyEntriesApart ==
  /\ OneEntryPerServerUrl
  /\ mode = "proxy" =>
       /\ \A i, j \in DOMAIN output.entries :
            i # j => output.entries[i].contextPath # output.entries[j].contextPath
       /\ pc = "configured" =>
            \A i \in DOMAIN output.entries :
              output.proxy[output.entries[i].contextPath].target = output.entries[i].target

-----------------------------------------------------------------------------
(* Markdown links in descriptions: src/unnamed/part_004 lines 7-27 and     *)
(* 44-179. `input` is the value handed to renderMarkdownLinks with the     *)
(* destination written into it, `output` the loop's text, cursor and html. *)
(* Positions count from 1, so 0 stands for the -1 of indexOf.              *)

\* .replace(/<[^>]*>/g, ' ')
RECURSIVE ReplaceTags(_)
ReplaceTags(s) ==
  IF s = <<>> THEN <<>>
  ELSE IF Head(s) = "<" /\ \E k \in 2..Len(s) : s[k] = ">"
    THEN <<" ">> \o ReplaceTags(SubSeq(s, (CHOOSE k \in 2..Len(s) :
                                              s[k] = ">" /\ \A j \in 2..(k - 1) : s[j] # ">") + 1,
                                       Len(s)))
  ELSE <<Head(s)>> \o ReplaceTags(Tail(s))

\* .replace(/\s+/g, ' ')
RECURSIVE CollapseSpaces(_)
CollapseSpaces(s) ==
  IF Len(s) < 2 THEN s
  ELSE IF IsSpace(s[1]) /\ IsSpace(s[2]) THEN CollapseSpaces(Tail(s))
  ELSE <<s[1]>> \o CollapseSpaces(Tail(s))

\* stripHtml(value) for a string, lines 7-13
stripHtml(value) == Trim(CollapseSpaces(ReplaceTags(value)))

EscapedChar(c) ==
  CASE c = "&" -> <<"&", "a", "m", "p", ";">>
    [] c = "<" -> <<"&", "l", "t", ";">>
    [] c = ">" -> <<"&", "g", "t", ";">>
    [] c = "\"" -> <<"&", "q", "u", "o", "t", ";">>
    [] c = "'" -> <<"&", "#", "3", "9", ";">>
    [] OTHER -> <<c>>

\* escapeHtml(value), lines 21-27
escapeHtml(value) == Flatten([k \in DOMAIN value |-> EscapedChar(value[k])])

\* unescapeMarkdownText(value), lines 47-49: a backslash before one of
\* \ [ ] ( ) is dropped
RECURSIVE unescapeMarkdownText(_)
unescapeMarkdownText(value) ==
  IF value = <<>> THEN <<>>
  ELSE IF Len(value) >= 2 /\ value[1] = "\\" /\ value[2] \in {"\\", "[", "]", "(", ")"}
    THEN <<value[2]>> \o unescapeMarkdownText(SubSeq(value, 3, Len(value)))
  ELSE <<Head(value)>> \o unescapeMarkdownText(Tail(value))

\* /^[a-z][a-z0-9+.-]*:/i: the position of the colon that ends the scheme,
\* 0 without a scheme
SchemeEnd(s) ==
  LET colons == {k \in DOMAIN s : s[k] = ":"}
      first == IF colons = {} THEN 0
               ELSE CHOOSE k \in colons : \A j \in colons : k <= j
  IN  IF /\ first >= 2
         /\ ToLowerChar(s[1]) \in Range(LowerChars)
         /\ \A k \in 2..(first - 1) :
              IsSlugChar(ToLowerChar(s[k])) \/ s[k] \in {"+", ".", "-"}
        THEN first ELSE 0

\* ALLOWED_PROTOCOLS, line 45
ALLOWED_PROTOCOLS == {<<"h", "t", "t", "p">>, <<"h", "t", "t", "p", "s">>, <<"m", "a", "i", "l", "t", "o">>}

\* mutant: every scheme is allowed
IsAllowedProtocolAny(scheme) == TRUE

\* ALLOWED_PROTOCOLS.has(scheme)
IsAllowedProtocol(scheme) == scheme \in ALLOWED_PROTOCOLS

\* sanitizeLinkHref(raw), lines 51-68; Null for null
sanitizeLinkHref(raw) ==
  LET trimmed == Trim(raw)
      lower == ToLowerCase(trimmed)
  IN  IF trimmed = <<>> THEN Null
      ELSE IF StartsWith(lower, <<"j", "a", "v", "a", "s", "c", "r", "i", "p", "t", ":">>) \/ StartsWith(lower, <<"d", "a", "t", "a", ":">>) THEN Null
      ELSE IF SchemeEnd(trimmed) # 0
        THEN IF IsAllowedProtocol(SubSeq(lower, 1, SchemeEnd(trimmed) - 1))
               THEN trimmed ELSE Null
      ELSE IF StartsWith(trimmed, <<"/", "/">>) THEN Null
      ELSE trimmed

\* text.indexOf(c, from)
IndexFrom(text, c, from) ==
  LET hits == {k \in from..Len(text) : text[k] = c}
  IN  IF hits = {} THEN 0 ELSE CHOOSE k \in hits : \A j \in hits : k <= j

\* findClosingBracket(input, startIndex), lines 70-87
RECURSIVE findClosingBracket(_, _)
findClosingBracket(text, index) ==
  IF index > Len(text) THEN 0
  ELSE IF text[index] = "\\" THEN findClosingBracket(text, index + 2)
  ELSE IF text[index] = "]" THEN index
  ELSE findClosingBracket(text, index + 1)

\* findClosingParen(input, startIndex), lines 89-113
RECURSIVE findClosingParen(_, _, _)
findClosingParen(text, index, depth) ==
  IF index > Len(text) THEN 0
  ELSE IF text[index] = "\\" THEN findClosingParen(text, index + 2, depth)
  ELSE IF text[index] = "(" THEN findClosingParen(text, index + 1, depth + 1)
  ELSE IF text[index] = ")"
    THEN (IF depth = 0 THEN index ELSE findClosingParen(text, index + 1, depth - 1))
  ELSE findClosingParen(text, index + 1, depth)

AnchorOpen == <<"<", "a", " ", "h", "r", "e", "f", "=", "\"">>
AnchorAttributes == <<"\"", " ", "t", "a", "r", "g", "e", "t", "=", "\"", "_", "b", "l", "a", "n", "k", "\"", " ", "r", "e", "l", "=", "\"", "n", "o", "o", "p", "e", "n", "e", "r", " ", "n", "o", "r", "e", "f", "e", "r", "r", "e", "r", "\"", ">">>
AnchorClose == <<"<", "/", "a", ">">>

\* lines 169-172: the anchor of a cleaned destination and a raw label
Anchor(cleanedHref, rawLabel) ==
  LET label == Trim(unescapeMarkdownText(rawLabel))
  IN  AnchorOpen \o escapeHtml(cleanedHref) \o AnchorAttributes
        \o escapeHtml(IF label # <<>> THEN label ELSE cleanedHref) \o AnchorClose

\* destinations the claim wants refused
RefusedDestinations ==
  { <<"j", "a", "v", "a", "s", "c", "r", "i", "p", "t", ":", "a", "l", "e", "r", "t", "(", "1", ")">>, <<"J", "a", "v", "a", "S", "c", "r", "i", "p", "t", ":", "x">>, <<" ", "j", "a", "v", "a", "s", "c", "r", "i", "p", "t", ":", "x">>,
    <<"d", "a", "t", "a", ":", "t", "e", "x", "t", "/", "h", "t", "m", "l", ",", "x">>, <<"f", "t", "p", ":", "/", "/", "h", "/", "x">>, <<"v", "b", "s", "c", "r", "i", "p", "t", ":", "x">>,
    <<"/", "/", "h", "/", "x">>, <<"f", "i", "l", "e", ":", "/", "/", "/", "x">> }

\* destinations the claim wants linked
LinkedDestinations ==
  { <<"/", "d", "o", "c", "s">>, <<"d", "o", "c", "s", "/", "a", "_", "(", "b", ")">>, <<"#", "t", "o", "p">>, <<"h", "t", "t", "p", ":", "/", "/", "h", "/", "x">>,
    <<"H", "T", "T", "P", "S", ":", "/", "/", "h", "/", "?", "a", "=", "1", "&", "b", "=", "2">>, <<"m", "a", "i", "l", "t", "o", ":", "a", "@", "h">>, <<".", "/", "a", ":", "b">> }

\* the texts a destination is written into; four of them hold no complete
\* link
LinkTexts(dest) ==
  { <<"[", "l", "i", "n", "k", "]", "(">> \o dest \o <<")">>,
    <<"D", "a", "n", "g", "e", "r", " ", "[", "l", "i", "n", "k", "]", "(">> \o dest \o <<")", " ", "&", " ", "m", "o", "r", "e">>,
    <<"<", "e", "m", ">", "S", "e", "e", "<", "/", "e", "m", ">", " ", " ", "[", "]", "(">> \o dest \o <<")">>,
    <<"[", "a", "]", "(", "/", "d", "o", "c", "s", ")", " ", "t", "h", "e", "n", " ", "[", "b", " ", "\\", "]", " ", "c", "]", "(">> \o dest \o <<")", " ", "o", "r", " ", "[", "c", "]", "(", "f", "t", "p", ":", "x", ")">>,
    <<"[", "o", "p", "e", "n", "]", "(">> \o dest,
    <<"p", "l", "a", "i", "n", " ", "<", "b", ">", "t", "e", "x", "t", "<", "/", "b", ">">>,
    <<"a", " ", "[", "l", "a", "b", "e", "l">>,
    <<"a", " ", "[", "l", "a", "b", "e", "l", "]", " ", "b">> }

InitLinks ==
  /\ mode = "links" /\ pc = "start"
  /\ \E dest \in RefusedDestinations \cup LinkedDestinations :
       \E text \in LinkTexts(dest) : input = [dest |-> dest, value |-> text]
  /\ output = [text |-> <<>>, cursor |-> 1, html |-> <<>>, anchors |-> 0, kept |-> 0]
  /\ IdleSlug /\ IdlePipelineData

UnchangedByLinks ==
  UNCHANGED <<mode, seen, issued, document, tagSeen, opSeen, tagsByName, heap,
              spec, entryOptions, options, custom, artifacts, input>>

\* lines 131-135
StripValue ==
  /\ mode = "links" /\ pc = "start"
  /\ output' = [output EXCEPT !.text = stripHtml(input.value)]
  /\ pc' = IF stripHtml(input.value) = <<>> THEN "rendered" ELSE "scan"
  /\ UnchangedByLinks

Scanning == mode = "links" /\ pc = "scan" /\ output.cursor <= Len(output.text)

\* `while (cursor < text.length)` is over
EndOfText ==
  /\ mode = "links" /\ pc = "scan" /\ output.cursor > Len(output.text)
  /\ pc' = "rendered"
  /\ UNCHANGED output
  /\ UnchangedByLinks

openBracket == IndexFrom(output.text, "[", output.cursor)
labelEnd == findClosingBracket(output.text, openBracket + 1)
hrefEnd == findClosingParen(output.text, labelEnd + 2, 0)
FollowedByParen == labelEnd + 1 <= Len(output.text) /\ output.text[labelEnd + 1] = "("
cleanedHref ==
  sanitizeLinkHref(unescapeMarkdownText(SubSeq(output.text, labelEnd + 2, hrefEnd - 1)))

\* the html with the text from the cursor up to the bracket
BeforeBracket ==
  output.html \o escapeHtml(SubSeq(output.text, output.cursor, openBracket - 1))

\* lines 138-142: no bracket is left
NoBracket ==
  /\ Scanning /\ openBracket = 0
  /\ output' = [output EXCEPT
       !.html = @ \o escapeHtml(SubSeq(output.text, output.cursor, Len(output.text)))]
  /\ pc' = "rendered"
  /\ UnchangedByLinks

\* lines 146-151: the label is not closed
UnclosedLabel ==
  /\ Scanning /\ openBracket # 0 /\ labelEnd = 0
  /\ output' = [output EXCEPT
       !.html = BeforeBracket \o escapeHtml(SubSeq(output.text, openBracket, Len(output.text)))]
  /\ pc' = "rendered"
  /\ UnchangedByLinks

\* lines 153-158: no parenthesis follows the label
NoDestination ==
  /\ Scanning /\ openBracket # 0 /\ labelEnd # 0 /\ ~FollowedByParen
  /\ output' = [output EXCEPT
       !.html = BeforeBracket \o escapeHtml(SubSeq(output.text, openBracket, labelEnd)),
       !.cursor = labelEnd + 1]
  /\ pc' = pc
  /\ UnchangedByLinks

\* lines 160-165: the destination is not closed
UnclosedDestination ==
  /\ Scanning /\ openBracket # 0 /\ labelEnd # 0 /\ FollowedByParen /\ hrefEnd = 0
  /\ output' = [output EXCEPT
       !.html = BeforeBracket \o escapeHtml(SubSeq(output.text, openBracket, Len(output.text)))]
  /\ pc' = "rendered"
  /\ UnchangedByLinks

\* lines 167-177: the destination is refused and the markdown is kept
KeepMarkdown ==
  /\ Scanning /\ openBracket # 0 /\ labelEnd # 0 /\ FollowedByParen /\ hrefEnd # 0
  /\ cleanedHref = Null
  /\ output' = [output EXCEPT
       !.html = BeforeBracket \o escapeHtml(SubSeq(output.text, openBracket, hrefEnd)),
       !.cursor = hrefEnd + 1,
       !.kept = @ + 1]
  /\ pc' = pc
  /\ UnchangedByLinks

\* lines 167-179: the anchor is emitted
EmitAnchor ==
  /\ Scanning /\ openBracket # 0 /\ labelEnd # 0 /\ FollowedByParen /\ hrefEnd # 0
  /\ cleanedHref # Null
  /\ output' = [output EXCEPT
       !.html = BeforeBracket
                  \o Anchor(cleanedHref, SubSeq(output.text, openBracket + 1, labelEnd - 1)),
       !.cursor = hrefEnd + 1,
       !.anchors = @ + 1]
  /\ pc' = pc
  /\ UnchangedByLinks

NextLinks ==
  \/ StripValue
  \/ EndOfText
  \/ NoBracket
  \/ UnclosedLabel
  \/ NoDestination
  \/ UnclosedDestination
  \/ KeepMarkdown
  \/ EmitAnchor

SpecLinks == InitLinks /\ [][NextLinks]_vars

\* `part` occurs in `whole`
Contains(whole, part) ==
  \E k \in 1..(Len(whole) - Len(part) + 1) : SubSeq(whole, k, k + Len(part) - 1) = part

\* the value holds a complete markdown link to the destination
HoldsLink == Contains(input.value, <<"]", "(">> \o input.dest \o <<")">>)

\* the number of anchors in the html: text is escaped, so every `<` of the
\* html opens or closes an anchor
AnchorsIn(html) == Cardinality({k \in DOMAIN html : html[k] = "<"}) \div 2

(* C25: renderMarkdownLinks emits an anchor only for a destination that is *)
(* relative or has the scheme http, https or mailto; a link to a           *)
(* javascript: or data: url, to any other scheme or to a protocol-relative *)
(* //host url gets no anchor and its markdown stays in the output as text. *)
OnlySafeDestinationsLinked ==
  (mode = "links" /\ pc = "rendered") =>
    /\ AnchorsIn(output.html) = output.anchors
    /\ ~Contains(output.html, AnchorOpen \o <<"f", "t", "p", ":", "x">>)
    /\ (input.dest \in RefusedDestinations /\ HoldsLink) =>
         /\ ~Contains(output.html, AnchorOpen \o escapeHtml(Trim(input.dest)))
         /\ Contains(output.html, escapeHtml(<<"]", "(">> \o input.dest \o <<")">>))
         /\ output.kept >= 1
         /\ output.anchors = 0 => output.html = escapeHtml(output.text)
    /\ (input.dest \in LinkedDestinations /\ HoldsLink) =>
         /\ Contains(output.html,
                     AnchorOpen \o escapeHtml(input.dest) \o AnchorAttributes)
         /\ ~Contains(output.html, escapeHtml(<<"]", "(">> \o input.dest \o <<")">>))

\* "[a](/docs) then [b \] c](javascript:alert(1)) or [c](ftp:x)" rendered:
\* one anchor, two links kept as text
OnlySafeDestinationsWitness ==
  /\ mode = "links" /\ pc = "rendered"
  /\ input.dest = <<"j", "a", "v", "a", "s", "c", "r", "i", "p", "t", ":", "a", "l", "e", "r", "t", "(", "1", ")">>
  /\ output.anchors = 1 /\ output.kept = 2
====
